---- MODULE Spec2Model ----
(***************************************************************************)
(* A model of the claw-stream-bot vision server: the broadcast hub         *)
(* (VisionBroadcaster), the frame summarizer (FrameSummarizer), the wiring *)
(* of index.ts, and the capture supervisors (TwitchAudioCapture,           *)
(* TwitchStreamCapture).  One action per event handler, timer callback or  *)
(* public method; the JavaScript event loop is modelled by a microtask     *)
(* queue that must be drained before the next event is handled.            *)
(***************************************************************************)
EXTENDS Integers, Sequences, FiniteSets, TLC

(***************************************************************************)
(* Bounds of the model.                                                    *)
(***************************************************************************)
\* WebSocket objects the server ever accepts (each connects once).
NumSockets == 2
\* Date.now() takes the values 1..MaxNow.
MaxNow == 2
\* Twitch chat messages delivered to the hub.
MaxChatLong == 102
\* Frames captured and handed to broadcastFrame.
MaxFrames == 3
\* Advance moves the clock of the capture classes from 0 to MaxClock
\* milliseconds, in steps of at most TickMs.
MaxClock == 4400
TickMs == 200
\* Capture attempts the video capture starts.
MaxAttempts == 2
\* The setInterval of the capture loop is followed up to this clock value.
MaxVideoClock == 30000
\* Calls of isStreamLive().
MaxProbes == 2
\* Fragments the transcriber delivers to the coalescer.
MaxFragments == 6
\* Chunks the record loop of the audio capture starts.
MaxChunks == 2
\* Twitch chat messages delivered while subscribers relay their own.
MaxChat == 2
\* Twitch chat messages delivered while snapshots are taken.
MaxChatSnapshot == 22

(***************************************************************************)
(* Program constants.                                                      *)
(***************************************************************************)
\* private maxChatHistory = 100
maxChatHistory == 100
\* this.recentChat.slice(-20)
SnapshotChat == 20
\* streamStartedAt: number | null = null; Date.now() is positive, so the
\* null of the code (falsy, like 0) is represented by 0.
Null == 0
\* private readonly BUFFER_DELAY_MS = 1000
BUFFER_DELAY_MS == 1000
\* private readonly MAX_BUFFER_TIME_MS = 3000
MAX_BUFFER_TIME_MS == 3000
\* recordChunk: (this.config.chunkDurationSeconds + 5) * 1000, with the
\* default chunkDurationSeconds of 8
CHUNK_TIMEOUT_MS == 13000
\* captureWithStreamlink: setTimeout(..., 15000)
ACQUIRE_TIMEOUT_MS == 15000
\* screenshotIntervalMs: 5000
screenshotIntervalMs == 5000
\* isStreamLive: setTimeout(() => cleanup(false), 10000)
PROBE_TIMEOUT_MS == 10000

Sockets == 1..NumSockets
ClawIds == {"A", "B"}
Undef == "<undefined>"

\* An address is the sequence of its dot-separated segments, so that
\* String.startsWith is a comparison of leading segments.
IpLoopback == <<"127", "0", "0", "1">>
IpPrivate == <<"192", "168", "1", "5">>
IpForeign == <<"203", "0", "113", "7">>
IpUnknown == <<"unknown">>

\* const LOCAL_IPS = ["127.0.0.1", "::1", "localhost", "::ffff:127.0.0.1"]
LOCAL_IPS ==
  { <<"127", "0", "0", "1">>, <<"::1">>, <<"localhost">>,
    <<"::ffff:127", "0", "0", "1">> }

\* LOCAL_IPS.includes(ip) || ip.startsWith("192.168.") || ip.startsWith("10.")
IsLocal(ip) ==
  \/ ip \in LOCAL_IPS
  \/ (Len(ip) >= 3 /\ ip[1] = "192" /\ ip[2] = "168")
  \/ (Len(ip) >= 2 /\ ip[1] = "10")

\* The upgrade requests the model draws from: the x-forwarded-for header
\* (already split on ","; <<>> when the header is absent) and the socket's
\* remoteAddress (Undef when the socket has none).
DirectRequest == [forwarded |-> <<>>, remoteAddress |-> IpLoopback]
ProxiedRequest ==
  [forwarded |-> <<IpForeign, IpPrivate>>, remoteAddress |-> IpLoopback]
Requests == {DirectRequest, ProxiedRequest}

\* typeof forwarded === "string" ? forwarded.split(",")[0].trim()
\*                               : req.socket.remoteAddress ?? "unknown"
ExtractIp(req) ==
  IF req.forwarded # <<>> THEN req.forwarded[1]
  ELSE IF req.remoteAddress # Undef THEN req.remoteAddress
  ELSE IpUnknown

VARIABLES
  now,                \* Date.now()
  readyState,         \* ws.readyState of every WebSocket object
  connectedClaws,     \* Map<string, ConnectedClaw>, in insertion order
  pendingConnections, \* Map<WebSocket, string>
  recentChat,         \* ChatMessage[]
  chatCount,          \* chat messages Twitch has delivered so far
  currentFrame,       \* StreamFrame | null (a frame id; Null when null)
  frames,             \* the StreamFrame objects: frame id -> summary
  streamStartedAt,    \* number | null
  totalConnectionsEver,
  connectionsByIP,    \* Map<string, number>
  enabled,            \* FrameSummarizer.enabled
  isSummarizing,      \* FrameSummarizer.isSummarizing
  lastSummary,        \* FrameSummarizer.lastSummary
  inflight,           \* describer requests awaiting their response
  microtasks,         \* resolved promises whose .then callback is queued
  out,                \* ws.send calls of the last step, in order
  handled,            \* handler invocations of the last step
  twitchOut,          \* lines handed to the Twitch client in the last step
  lastOp,             \* the operation the last step ran
  obs,                \* history the properties refer to
  crashed,            \* an uncaught exception has ended the server process
  clock,              \* Date.now() of the capture classes, in milliseconds
  timers,             \* pending setTimeout callbacks: [id, due, kind, proc]
  timerCount,         \* timer handles handed out so far
  transcriptBuffer,   \* TwitchAudioCapture.transcriptBuffer
  bufferTimeout,      \* TwitchAudioCapture.bufferTimeout (a handle or Null)
  bufferStartTime,    \* TwitchAudioCapture.bufferStartTime
  fragCount,          \* fragments the transcriber has delivered so far
  emitted,            \* transcripts handed to the handlers in the last step
  burst,              \* history: the current run of fragments and its events
  procs,              \* the ChildProcess objects spawned so far
  activeProcesses,    \* TwitchAudioCapture.activeProcesses
  videoProcesses,     \* TwitchStreamCapture.activeProcesses
  isRunning,          \* isRunning of the audio and of the video capture
  chunkIndex,         \* TwitchAudioCapture.chunkIndex
  killWaiting,        \* processes whose killProcess promise is unresolved
  stopState,          \* stop() of each capture: idle, waiting or returned
  tracked,            \* history: the processes stop() found tracked for an
                      \* attempt in flight
  captureInterval,    \* TwitchStreamCapture.captureInterval (a handle or Null)
  frameIndex,         \* capture attempts of the video capture so far
  attempts,           \* the capture attempts: <<owner, k>> -> its promise
                      \* (settled) and its stage; timedOut is history
  files,              \* segments and images in /tmp/twitch-capture
  probes              \* the isStreamLive() calls: the flag resolved of each,
                      \* and history (the calls of resolve that settled the
                      \* promise, with what and by which handler; the close)

vars ==
  << now, readyState, connectedClaws, pendingConnections, recentChat,
     chatCount, currentFrame, frames, streamStartedAt, totalConnectionsEver,
     connectionsByIP, enabled, isSummarizing, lastSummary, inflight,
     microtasks, out, handled, twitchOut, lastOp, obs, crashed, clock, timers,
     timerCount, transcriptBuffer, bufferTimeout, bufferStartTime, fragCount,
     emitted, burst, procs, activeProcesses, videoProcesses, isRunning,
     chunkIndex, killWaiting, stopState, tracked, captureInterval,
     frameIndex, attempts, files, probes >>

\* The variables of the vision server ...
serverVars ==
  << now, readyState, connectedClaws, pendingConnections, recentChat,
     chatCount, currentFrame, frames, streamStartedAt, totalConnectionsEver,
     connectionsByIP, enabled, isSummarizing, lastSummary, inflight,
     microtasks, out, handled, twitchOut, obs, crashed >>
\* ... and of the capture classes.
coalescerVars ==
  << transcriptBuffer, bufferTimeout, bufferStartTime, fragCount, emitted,
     burst >>
procVars ==
  << procs, activeProcesses, videoProcesses, isRunning, chunkIndex,
     killWaiting, stopState, tracked >>
videoVars == << captureInterval, frameIndex, attempts, files, probes >>
captureVars ==
  << clock, timers, timerCount, coalescerVars, procVars, videoVars >>

hubVars ==
  << connectedClaws, pendingConnections, recentChat, currentFrame,
     streamStartedAt >>
metricVars == << totalConnectionsEver, connectionsByIP >>
summVars == << enabled, isSummarizing, lastSummary, inflight >>

(***************************************************************************)
(* Map<string, ConnectedClaw>: a sequence of entries in insertion order.   *)
(***************************************************************************)
MapHas(m, id) == \E i \in 1..Len(m) : m[i].id = id

\* Map.prototype.set: an existing key keeps its place.
MapSet(m, id, ws, participant) ==
  LET e == [id |-> id, ws |-> ws, participant |-> participant]
  IN IF MapHas(m, id)
       THEN [i \in 1..Len(m) |-> IF m[i].id = id THEN e ELSE m[i]]
       ELSE Append(m, e)

MapDelete(m, id) == SelectSeq(m, LAMBDA e : e.id # id)

MapIds(m) == {m[i].id : i \in 1..Len(m)}

\* Mutant: the first n entries instead of the last n.
SliceFirst(s, n) == IF Len(s) <= n THEN s ELSE SubSeq(s, 1, n)

\* Array.prototype.slice(-n)
SliceLast(s, n) ==
  IF Len(s) <= n THEN s ELSE SubSeq(s, Len(s) - n + 1, Len(s))

\* The JSON of a frame object at the moment it is serialised.
FrameJson(fs, f) ==
  IF f = Null THEN [id |-> Null, summary |-> ""]
  ELSE [id |-> f, summary |-> fs[f]]

\* getStreamState()
getStreamState(claws, startedAt) ==
  [ isLive |-> startedAt # Null,
    currentFrame |-> FrameJson(frames, currentFrame),
    recentChat |-> SliceLast(recentChat, SnapshotChat),
    participants |-> [i \in 1..Len(claws) |-> claws[i].participant],
    streamStartedAt |-> startedAt ]

Message(type, payload) == [type |-> type, payload |-> payload, timestamp |-> now]

\* Mutants of the fan-out pass: it stops at the first entry that is not
\* open; it leaves the entries that are not open in the registry.
BroadcastSendsAbort(rs, claws, msg) ==
  LET dead == {i \in 1..Len(claws) : rs[claws[i].ws] # "OPEN"}
      n == IF dead = {} THEN Len(claws)
           ELSE (CHOOSE i \in dead : \A j \in dead : i <= j) - 1
  IN [i \in 1..n |-> [to |-> claws[i].ws, msg |-> msg]]
BroadcastPruneNothing(rs, claws) == claws

\* Mutant of the fan-out pass: it sends to every open socket, registered
\* or not.
BroadcastSendsEveryOpen(rs, claws, msg) ==
  LET open == {w \in Sockets : rs[w] = "OPEN"}
      Ordered[S \in SUBSET Sockets] ==
        IF S = {} THEN <<>>
        ELSE LET w == CHOOSE x \in S : \A y \in S : x <= y
             IN <<w>> \o Ordered[S \ {w}]
  IN [i \in 1..Cardinality(open) |-> [to |-> Ordered[open][i], msg |-> msg]]

\* private broadcast(message), with rs the readyState of every socket during
\* the pass: the sends of one fan-out pass ...
BroadcastSends(rs, claws, msg) ==
  LET live == SelectSeq(claws, LAMBDA e : rs[e.ws] = "OPEN")
  IN [i \in 1..Len(live) |-> [to |-> live[i].ws, msg |-> msg]]

\* ... and the registry the pass leaves behind.
BroadcastPrune(rs, claws) == SelectSeq(claws, LAMBDA e : rs[e.ws] = "OPEN")

\* Map operations on the maps keyed by socket or by address.
EmptyMap == [k \in {} |-> Null]
MapGet(m, k, default) == IF k \in DOMAIN m THEN m[k] ELSE default
MapPut(m, k, v) == [x \in DOMAIN m \cup {k} |-> IF x = k THEN v ELSE m[x]]
MapRemove(m, k) == [x \in DOMAIN m \ {k} |-> m[x]]

\* !value of an optional string field: undefined and "" are falsy.
Falsy(x) == x = Undef \/ x = ""
\* value ?? default
OrElse(x, default) == IF x = Undef THEN default ELSE x

(***************************************************************************)
(* Inbound traffic.  A raw message either fails JSON.parse, or parses to   *)
(* an object whose absent fields read as undefined, or parses to null (the *)
(* text "null"), which has no fields to read.                              *)
(***************************************************************************)
Json(type, clawId, clawName, content) ==
  [ type |-> type, clawId |-> clawId, clawName |-> clawName,
    sessionId |-> Undef, content |-> content ]

JsonMessages ==
  { Json("register", id, id, Undef) : id \in ClawIds }
  \cup { Json("register", Undef, "ghost", Undef),
         Json("chat", "A", "A", "hi"),
         Json("reaction", "A", "A", "wow"),
         Json("observation", Undef, Undef, Undef),
         Json("ping", Undef, Undef, Undef),
         Json("bogus", Undef, Undef, Undef) }

\* JSON.parse("null")
JsonNull == [null |-> TRUE]
\* Reading a property of null throws a TypeError.
ReadThrows(m) == "type" \notin DOMAIN m

RawMessages ==
  { [wellFormed |-> TRUE, value |-> m] : m \in JsonMessages }
  \cup { [wellFormed |-> TRUE, value |-> JsonNull] }
  \cup { [wellFormed |-> FALSE, value |-> Json(Undef, Undef, Undef, Undef)] }

(***************************************************************************)
(* handleClawMessage, case "register".                                     *)
(***************************************************************************)
RegisterParticipant(ws, m) ==
  LET ip == MapGet(pendingConnections, ws, IpUnknown)
  IN [ id |-> m.clawId, name |-> m.clawName,
       sessionId |-> OrElse(m.sessionId, ""),
       joinedAt |-> now, lastSeen |-> now,
       ipAddress |-> ip, isLocal |-> IsLocal(ip) ]

\* Mutant: a registration from a foreign address is not accepted.
RegisterClawsLocalOnly(ws, m) ==
  IF IsLocal(MapGet(pendingConnections, ws, IpUnknown))
    THEN MapSet(connectedClaws, m.clawId, ws, RegisterParticipant(ws, m))
    ELSE connectedClaws

\* this.connectedClaws.set(message.clawId, { ws, participant })
RegisterClaws(ws, m) ==
  MapSet(connectedClaws, m.clawId, ws, RegisterParticipant(ws, m))

\* private broadcastState(): the state message built from the registry as it
\* is when the pass starts.
StateMessage(claws, startedAt) ==
  Message("state", getStreamState(claws, startedAt))

(***************************************************************************)
(* handleClawMessage, cases "chat" | "reaction" | "observation".           *)
(***************************************************************************)
\* Mutant: the sender's name is replaced by the default.
ClawMessageOfAnonymous(m) ==
  [ type |-> m.type,
    content |-> OrElse(m.content, ""),
    clawId |-> OrElse(m.clawId, ""),
    clawName |-> "Unknown Claw",
    timestamp |-> now ]

ClawMessageOf(m) ==
  [ type |-> m.type,
    content |-> OrElse(m.content, ""),
    clawId |-> OrElse(m.clawId, ""),
    clawName |-> OrElse(m.clawName, "Unknown Claw"),
    timestamp |-> now ]

\* index.ts: the handler registered with onClawMessage hands chat messages
\* to twitchClient.sendClawMessage(clawName, content).
TwitchLines(cm) ==
  IF cm.type = "chat"
    THEN << [clawName |-> cm.clawName, content |-> cm.content] >>
    ELSE << >>

\* Mutant: the router fans the message out to the registry as a chat message.
ClawMessageSendsRebroadcast(cm) ==
  BroadcastSends(readyState, connectedClaws, Message("chat", cm))

\* The sends the hub itself makes while it routes a chat, reaction or
\* observation message: none, the message goes to the handlers only.
ClawMessageSends(cm) == << >>

(***************************************************************************)
(* handleClawMessage, case "ping".                                         *)
(***************************************************************************)
\* Array.from(this.connectedClaws.values()).find((c) => c.ws === ws)
FindByWs(claws, ws) ==
  IF \E i \in 1..Len(claws) : claws[i].ws = ws
    THEN CHOOSE i \in 1..Len(claws) :
           /\ claws[i].ws = ws
           /\ \A j \in 1..(i - 1) : claws[j].ws # ws
    ELSE 0

\* Mutant: a ping refreshes every participant.
PingClawsAll(ws) ==
  [i \in 1..Len(connectedClaws) |->
     [connectedClaws[i] EXCEPT !.participant.lastSeen = now]]

PingClaws(ws) ==
  LET i == FindByWs(connectedClaws, ws)
  IN IF i = 0 THEN connectedClaws
     ELSE [connectedClaws EXCEPT ![i].participant.lastSeen = now]

NoOp == [op |-> "init"]

\* The outcomes the describer can give: a text block, or none ("").
Summaries == {"s1", "s2", ""}

Init ==
  /\ now = 1
  /\ readyState = [w \in Sockets |-> "NONE"]
  /\ connectedClaws = <<>>
  /\ pendingConnections = EmptyMap
  /\ recentChat = <<>>
  /\ chatCount = 0
  /\ currentFrame = Null
  /\ frames = <<>>
  /\ streamStartedAt = Null
  /\ totalConnectionsEver = 0
  /\ connectionsByIP = EmptyMap
  /\ enabled \in BOOLEAN
  /\ isSummarizing = FALSE
  /\ lastSummary = ""
  /\ inflight = {}
  /\ microtasks = <<>>
  /\ out = <<>>
  /\ handled = <<>>
  /\ twitchOut = <<>>
  /\ lastOp = NoOp
  /\ obs = [ lastLiveArg |-> FALSE, cachedAtStart |-> "", lastGood |-> "",
             passes |-> <<>> ]
  /\ crashed = FALSE
  /\ clock = 0
  /\ timers = {}
  /\ timerCount = 0
  /\ transcriptBuffer = <<>>
  /\ bufferTimeout = Null
  /\ bufferStartTime = 0
  /\ fragCount = 0
  /\ emitted = <<>>
  /\ burst = [frags |-> <<>>, first |-> 0, last |-> 0, events |-> <<>>]
  /\ procs = << >>
  /\ activeProcesses = {}
  /\ videoProcesses = {}
  /\ isRunning = [audio |-> FALSE, video |-> FALSE]
  /\ chunkIndex = 0
  /\ killWaiting = {}
  /\ stopState = [audio |-> "idle", video |-> "idle"]
  /\ tracked = [audio |-> {}, video |-> {}]
  /\ captureInterval = Null
  /\ frameIndex = 0
  /\ attempts = << >>
  /\ files = {}
  /\ probes = << >>

\* Date.now() advances between events.
Tick ==
  /\ microtasks = <<>>
  /\ ~crashed
  /\ now < MaxNow
  /\ now' = now + 1
  /\ out' = <<>> /\ handled' = <<>> /\ twitchOut' = <<>>
  /\ lastOp' = [op |-> "tick"]
  /\ UNCHANGED << crashed, captureVars >>
  /\ UNCHANGED << readyState, hubVars, chatCount, frames, metricVars,
                  summVars, microtasks, obs >>

(***************************************************************************)
(* wss.on("connection"): the next WebSocket object is accepted.            *)
(***************************************************************************)
\* Mutant: the new connection is also sent the chat history as chat events.
ConnectionSendsReplay(ws) ==
  << [to |-> ws, msg |-> StateMessage(connectedClaws, streamStartedAt)] >>
    \o [i \in 1..Len(recentChat) |->
          [to |-> ws, msg |-> Message("chat", recentChat[i])]]

\* "Send current state to newly connected claw": one ws.send.
ConnectionSends(ws) ==
  << [to |-> ws, msg |-> StateMessage(connectedClaws, streamStartedAt)] >>

Connection(req) ==
  LET ws == totalConnectionsEver + 1
      ip == ExtractIp(req)
  IN /\ microtasks = <<>>
     /\ ~crashed
     /\ ws \in Sockets
     /\ readyState[ws] = "NONE"
     /\ readyState' = [readyState EXCEPT ![ws] = "OPEN"]
     /\ pendingConnections' = MapPut(pendingConnections, ws, ip)
     /\ totalConnectionsEver' = totalConnectionsEver + 1
     /\ connectionsByIP' =
          MapPut(connectionsByIP, ip, MapGet(connectionsByIP, ip, 0) + 1)
     /\ out' = ConnectionSends(ws)
     /\ handled' = <<>> /\ twitchOut' = <<>>
     /\ lastOp' = [op |-> "connection", ws |-> ws]
     /\ UNCHANGED << crashed, captureVars >>
     /\ UNCHANGED << now, connectedClaws, recentChat, chatCount, currentFrame,
                     frames, streamStartedAt, summVars, microtasks, obs >>

(***************************************************************************)
(* ws.on("message"): handleClawMessage(ws, rawMessage).                    *)
(***************************************************************************)
MessageKind(raw) ==
  LET m == raw.value
  IN IF ~raw.wellFormed THEN "invalid"
     ELSE IF ReadThrows(m) THEN "throws"
     ELSE IF m.type = "register"
       THEN IF Falsy(m.clawId) \/ Falsy(m.clawName)
              THEN "badRegister" ELSE "register"
     ELSE IF m.type \in {"chat", "reaction", "observation"} THEN "claw"
     ELSE IF m.type = "ping" THEN "ping"
     ELSE "unknown"

HandleClawMessage(ws, raw) ==
  LET m == raw.value
      kind == MessageKind(raw)
      set == RegisterClaws(ws, m)
      cm == ClawMessageOf(m)
  IN /\ microtasks = <<>>
     /\ ~crashed
     /\ readyState[ws] = "OPEN"
     /\ connectedClaws' =
          CASE kind = "register" -> BroadcastPrune(readyState, set)
            [] kind = "ping" -> PingClaws(ws)
            [] OTHER -> connectedClaws
     /\ pendingConnections' =
          IF kind = "register" THEN MapRemove(pendingConnections, ws)
          ELSE pendingConnections
     /\ out' =
          CASE kind = "register" ->
                 BroadcastSends(readyState, set,
                                StateMessage(set, streamStartedAt))
            [] kind = "claw" -> ClawMessageSends(cm)
            [] kind = "ping" ->
                 << [to |-> ws, msg |-> [type |-> "pong", timestamp |-> now]] >>
            [] OTHER -> << >>
     /\ handled' = IF kind = "claw" THEN << cm >> ELSE << >>
     /\ twitchOut' = IF kind = "claw" THEN TwitchLines(cm) ELSE << >>
     /\ lastOp' = [ op |-> "message", kind |-> kind, ws |-> ws,
                    type |-> IF kind = "throws" THEN Undef ELSE m.type,
                    message |-> IF kind \in {"claw", "register", "badRegister"}
                                  THEN m ELSE JsonNull ]
     \* switch (message.type) on null: the TypeError leaves the "message"
     \* listener uncaught, the process exits and its sockets close.
     /\ crashed' = (kind = "throws")
     /\ readyState' =
          IF kind = "throws"
            THEN [w \in Sockets |->
                    IF readyState[w] = "NONE" THEN "NONE" ELSE "CLOSED"]
            ELSE readyState
     /\ UNCHANGED captureVars
     /\ UNCHANGED << now, recentChat, chatCount, currentFrame,
                     frames, streamStartedAt, metricVars, summVars,
                     microtasks, obs >>

(***************************************************************************)
(* The socket of a connection starts to close (a close frame arrived, the  *)
(* peer vanished): readyState leaves OPEN before "close" is emitted.       *)
(***************************************************************************)
WsClosing(ws) ==
  /\ microtasks = <<>>
  /\ ~crashed
  /\ readyState[ws] = "OPEN"
  /\ readyState' = [readyState EXCEPT ![ws] = "CLOSING"]
  /\ out' = <<>> /\ handled' = <<>> /\ twitchOut' = <<>>
  /\ lastOp' = [op |-> "closing", ws |-> ws]
  /\ UNCHANGED << crashed, captureVars >>
  /\ UNCHANGED << now, hubVars, chatCount, frames, metricVars, summVars,
                  microtasks, obs >>

(***************************************************************************)
(* ws.on("close"): handleClawDisconnect(ws).                               *)
(***************************************************************************)
\* The registry after the loop's delete (the first entry bound to ws).
DisconnectClaws(ws) ==
  LET i == FindByWs(connectedClaws, ws)
  IN IF i = 0 THEN connectedClaws
     ELSE MapDelete(connectedClaws, connectedClaws[i].id)

WsClose(ws) ==
  LET rs == [readyState EXCEPT ![ws] = "CLOSED"]
      found == FindByWs(connectedClaws, ws) # 0
      deleted == DisconnectClaws(ws)
  IN /\ microtasks = <<>>
     /\ ~crashed
     /\ readyState[ws] \in {"OPEN", "CLOSING"}
     /\ readyState' = rs
     /\ connectedClaws' =
          IF found THEN BroadcastPrune(rs, deleted) ELSE connectedClaws
     /\ out' =
          IF found
            THEN BroadcastSends(rs, deleted,
                                StateMessage(deleted, streamStartedAt))
            ELSE << >>
     /\ handled' = <<>> /\ twitchOut' = <<>>
     /\ lastOp' = [op |-> "close", ws |-> ws, found |-> found]
     /\ UNCHANGED << crashed, captureVars >>
     /\ UNCHANGED << now, pendingConnections, recentChat, chatCount,
                     currentFrame, frames, streamStartedAt, metricVars,
                     summVars, microtasks, obs >>

(***************************************************************************)
(* setStreamLive(isLive)                                                   *)
(***************************************************************************)
\* Mutant: the offline edge is lost.
SetLiveStartedAtSticky(isLive) ==
  IF isLive /\ streamStartedAt = Null THEN now ELSE streamStartedAt

SetLiveStartedAt(isLive) ==
  IF isLive /\ streamStartedAt = Null THEN now
  ELSE IF ~isLive /\ streamStartedAt # Null THEN Null
  ELSE streamStartedAt

\* The sends setStreamLive makes: broadcastState() runs on every call.
SetLiveSends(isLive) ==
  BroadcastSends(readyState, connectedClaws,
                 StateMessage(connectedClaws, SetLiveStartedAt(isLive)))

SetStreamLive(isLive) ==
  /\ microtasks = <<>>
  /\ ~crashed
  /\ streamStartedAt' = SetLiveStartedAt(isLive)
  /\ out' = SetLiveSends(isLive)
  /\ connectedClaws' = BroadcastPrune(readyState, connectedClaws)
  /\ handled' = <<>> /\ twitchOut' = <<>>
  /\ lastOp' = [ op |-> "setStreamLive", isLive |-> isLive,
                 edge |-> (isLive # (streamStartedAt # Null)) ]
  /\ obs' = [obs EXCEPT !.lastLiveArg = isLive]
  /\ UNCHANGED << crashed, captureVars >>
  /\ UNCHANGED << now, readyState, pendingConnections, recentChat, chatCount,
                  currentFrame, frames, metricVars, summVars, microtasks >>

(***************************************************************************)
(* broadcastChatMessage(chatMessage), called for every Twitch chat line.   *)
(***************************************************************************)
\* Mutant: the newest entry is dropped instead of the oldest.
PushChatDropNewest(chat, m) ==
  LET pushed == Append(chat, m)
  IN IF Len(pushed) > maxChatHistory
       THEN SubSeq(pushed, 1, Len(pushed) - 1) ELSE pushed

PushChat(chat, m) ==
  LET pushed == Append(chat, m)
  IN IF Len(pushed) > maxChatHistory THEN Tail(pushed) ELSE pushed

BroadcastChatMessage(limit) ==
  LET m == [seq |-> chatCount + 1]
  IN /\ microtasks = <<>>
     /\ ~crashed
     /\ chatCount < limit
     /\ chatCount' = chatCount + 1
     /\ recentChat' = PushChat(recentChat, m)
     /\ out' = BroadcastSends(readyState, connectedClaws, Message("chat", m))
     /\ connectedClaws' = BroadcastPrune(readyState, connectedClaws)
     /\ handled' = <<>> /\ twitchOut' = <<>>
     /\ lastOp' = [op |-> "broadcastChatMessage", seq |-> chatCount + 1]
     /\ UNCHANGED << crashed, captureVars >>
     /\ UNCHANGED << now, readyState, pendingConnections, currentFrame, frames,
                     streamStartedAt, metricVars, summVars, microtasks, obs >>

(***************************************************************************)
(* broadcastTranscript(transcript)                                         *)
(***************************************************************************)
BroadcastTranscript ==
  /\ microtasks = <<>>
  /\ ~crashed
  /\ out' = BroadcastSends(readyState, connectedClaws,
                           Message("transcript", [text |-> "speech"]))
  /\ connectedClaws' = BroadcastPrune(readyState, connectedClaws)
  /\ handled' = <<>> /\ twitchOut' = <<>>
  /\ lastOp' = [op |-> "broadcastTranscript"]
  /\ UNCHANGED << crashed, captureVars >>
  /\ UNCHANGED << now, readyState, pendingConnections, recentChat, chatCount,
                  currentFrame, frames, streamStartedAt, metricVars, summVars,
                  microtasks, obs >>

(***************************************************************************)
(* FrameSummarizer.summarizeFrame(frame)                                   *)
(***************************************************************************)
\* Mutants of the summarizer: no in-flight guard; a guarded call or a failed
\* call that returns "" instead of the cached summary.
SummarizeGuardOff == FALSE
GuardedResultEmpty == ""
FailureResultEmpty == ""
\* Mutant: broadcastFrame also fans the raw frame out at once.
EarlyFrameSendsNow(fs, f) ==
  BroadcastSends(readyState, connectedClaws, Message("frame", FrameJson(fs, f)))

\* if (this.isSummarizing) return this.lastSummary
SummarizeGuard == isSummarizing
\* The value a call returns at the in-flight guard.
GuardedResult == lastSummary
\* catch: return this.lastSummary
FailureResult == lastSummary
\* this.lastSummary = summary (the success path); summary is the text block
\* of the response, "" when it has none.
SuccessCache(text) == text
\* Mutant: the completion of the request leaves the flag set.
ReleasedFlagHeld == TRUE

\* finally: this.isSummarizing = false
ReleasedFlag == FALSE

\* The frame messages broadcastFrame sends before the summary attempt
\* resolves, when the summarizer is enabled: none.
EarlyFrameSends(fs, f) == << >>

\* The summary the .then callback leaves on the frame object.
AttachSummary(old, summary) == IF summary # "" THEN summary ELSE old

(***************************************************************************)
(* broadcastFrame(frame), called with every captured frame (a new object). *)
(***************************************************************************)
BroadcastFrame ==
  LET f == Len(frames) + 1
      fs == Append(frames, "")
      guarded == SummarizeGuard
  IN /\ microtasks = <<>>
     /\ ~crashed
     /\ Len(frames) < MaxFrames
     /\ frames' = fs
     /\ currentFrame' = f
     /\ IF enabled
          THEN /\ IF guarded
                    THEN /\ microtasks' =
                              << [frame |-> f, summary |-> GuardedResult] >>
                         /\ UNCHANGED << isSummarizing, inflight >>
                         /\ obs' = [obs EXCEPT !.passes = Append(@, 0)]
                    ELSE /\ isSummarizing' = TRUE
                         /\ inflight' = inflight \cup {f}
                         /\ microtasks' = <<>>
                         /\ obs' = [obs EXCEPT !.passes = Append(@, 0),
                                               !.cachedAtStart = lastSummary]
               /\ out' = EarlyFrameSends(fs, f)
               /\ UNCHANGED connectedClaws
          ELSE /\ out' = BroadcastSends(readyState, connectedClaws,
                                        Message("frame", FrameJson(fs, f)))
               /\ connectedClaws' = BroadcastPrune(readyState, connectedClaws)
               /\ obs' = [obs EXCEPT !.passes = Append(@, 1)]
               /\ UNCHANGED << isSummarizing, inflight, microtasks >>
     /\ handled' = <<>> /\ twitchOut' = <<>>
     /\ lastOp' = [ op |-> "broadcastFrame", frame |-> f,
                    guarded |-> (enabled /\ guarded) ]
     /\ UNCHANGED << crashed, captureVars >>
     /\ UNCHANGED << now, readyState, pendingConnections, recentChat, chatCount,
                     streamStartedAt, metricVars, enabled, lastSummary >>

\* The describer answers the request made for frame f.
DescriberSucceeds(f, text) ==
  /\ microtasks = <<>>
  /\ ~crashed
  /\ f \in inflight
  /\ inflight' = inflight \ {f}
  /\ lastSummary' = SuccessCache(text)
  /\ isSummarizing' = ReleasedFlag
  /\ microtasks' = << [frame |-> f, summary |-> text] >>
  /\ out' = <<>> /\ handled' = <<>> /\ twitchOut' = <<>>
  /\ lastOp' = [op |-> "describerSucceeded", frame |-> f, text |-> text]
  /\ obs' = [obs EXCEPT !.lastGood = text]
  /\ UNCHANGED << crashed, captureVars >>
  /\ UNCHANGED << now, readyState, hubVars, chatCount, frames, metricVars,
                  enabled >>

\* The describer request made for frame f fails.
DescriberFails(f) ==
  /\ microtasks = <<>>
  /\ ~crashed
  /\ f \in inflight
  /\ inflight' = inflight \ {f}
  /\ isSummarizing' = ReleasedFlag
  /\ microtasks' = << [frame |-> f, summary |-> FailureResult] >>
  /\ out' = <<>> /\ handled' = <<>> /\ twitchOut' = <<>>
  /\ lastOp' = [op |-> "describerFailed", frame |-> f]
  /\ UNCHANGED << crashed, captureVars >>
  /\ UNCHANGED << now, readyState, hubVars, chatCount, frames, metricVars,
                  enabled, lastSummary, obs >>

\* The .then callback of broadcastFrame runs with the resolved summary.
RunMicrotask ==
  /\ microtasks # <<>>
  /\ ~crashed
  /\ LET t == Head(microtasks)
         fs == [frames EXCEPT ![t.frame] = AttachSummary(@, t.summary)]
     IN /\ frames' = fs
        /\ out' = BroadcastSends(readyState, connectedClaws,
                                 Message("frame", FrameJson(fs, t.frame)))
        /\ lastOp' = [op |-> "frameSent", frame |-> t.frame,
                      summary |-> t.summary]
        /\ obs' = [obs EXCEPT !.passes[t.frame] = @ + 1]
  /\ connectedClaws' = BroadcastPrune(readyState, connectedClaws)
  /\ microtasks' = Tail(microtasks)
  /\ handled' = <<>> /\ twitchOut' = <<>>
  /\ UNCHANGED << crashed, captureVars >>
  /\ UNCHANGED << now, readyState, pendingConnections, recentChat, chatCount,
                  currentFrame, streamStartedAt, metricVars, summVars >>

(***************************************************************************)
(* getMetrics()                                                            *)
(***************************************************************************)
\* getConnectedClaws()
getConnectedClaws ==
  [i \in 1..Len(connectedClaws) |-> connectedClaws[i].participant]

\* Mutant: every participant counts as foreign.
ForeignCountAll(ps) == Len(ps)

\* participants.filter((p) => p.isLocal).length
LocalCount(ps) == Cardinality({i \in DOMAIN ps : ps[i].isLocal})
\* participants.filter((p) => !p.isLocal).length
ForeignCount(ps) == Cardinality({i \in DOMAIN ps : ~ps[i].isLocal})

getMetrics ==
  LET participants == getConnectedClaws
  IN [ totalConnections |-> totalConnectionsEver,
       localConnections |-> LocalCount(participants),
       foreignConnections |-> ForeignCount(participants),
       uniqueIPs |-> {participants[i].ipAddress : i \in DOMAIN participants},
       connectionsByIP |-> connectionsByIP ]

(***************************************************************************)
(* TwitchAudioCapture: the transcript buffer.  Time is the millisecond     *)
(* clock; a setTimeout callback runs when the clock reaches its due time,  *)
(* and a callback that is due runs before anything else of that instant.   *)
(***************************************************************************)
\* A text is the sequence of its characters.  The transcriber delivers
\* trimmed, non-empty texts (transcribeChunk trims, isValidTranscript drops
\* the empty ones); the k-th fragment is the k-th of these words, in turn.
Words ==
  << <<"a">>, <<"b">>, <<"c">>, <<"h", "e", "l", "l", "o">>,
     <<"w", "o", "r", "l", "d">> >>
FragmentText(k) == Words[((k - 1) % Len(Words)) + 1]

\* Array.prototype.join(" ")
RECURSIVE JoinSpace(_)
JoinSpace(buf) ==
  IF buf = <<>> THEN <<>>
  ELSE IF Len(buf) = 1 THEN buf[1]
  ELSE buf[1] \o <<" ">> \o JoinSpace(Tail(buf))

\* String.prototype.trim()
RECURSIVE Trim(_)
Trim(text) ==
  IF text = <<>> THEN text
  ELSE IF Head(text) = " " THEN Trim(Tail(text))
  ELSE IF text[Len(text)] = " " THEN Trim(SubSeq(text, 1, Len(text) - 1))
  ELSE text

\* Mutant: flushBuffer() hands over the last fragment only.
FlushEventsLast(buf) ==
  IF buf = <<>> THEN <<>>
  ELSE << [text |-> buf[Len(buf)], timestamp |-> clock] >>

\* The transcripts flushBuffer() hands to the handlers for a buffer.
FlushEvents(buf) ==
  LET combinedText == Trim(JoinSpace(buf))
  IN IF buf = <<>> \/ combinedText = <<>> THEN <<>>
     ELSE << [text |-> combinedText, timestamp |-> clock] >>

DueTimers == {t \in timers : t.due <= clock}
Min(S) == CHOOSE x \in S : \A y \in S : x <= y

\* Mutant: the pending debounce timer is left running.
ClearTimeoutForgotten(ts, handle) == ts

\* if (this.bufferTimeout) clearTimeout(this.bufferTimeout)
ClearTimeout(ts, handle) == {t \in ts : t.id # handle}

ClearBufferTimeout(ts) ==
  IF bufferTimeout # Null THEN ClearTimeout(ts, bufferTimeout) ELSE ts

\* The run of fragments the arriving one belongs to: a fragment that comes
\* a debounce delay or more after the previous one starts a new run.
BurstAfter(text, events) ==
  IF fragCount = 0 \/ clock - burst.last >= BUFFER_DELAY_MS
    THEN [frags |-> << text >>, first |-> clock, last |-> clock,
          events |-> events]
    ELSE [burst EXCEPT !.frags = Append(@, text), !.last = clock,
                       !.events = @ \o events]

\* addToBuffer(text), called by transcribeChunk with the next fragment.
AddToBuffer ==
  LET text == FragmentText(fragCount + 1)
      start == IF transcriptBuffer = <<>> THEN clock ELSE bufferStartTime
      buf == Append(transcriptBuffer, text)
      bufferAge == clock - start
      forced == bufferAge >= MAX_BUFFER_TIME_MS
      handle == timerCount + 1
  IN /\ fragCount < MaxFragments
     /\ DueTimers = {}
     /\ fragCount' = fragCount + 1
     /\ bufferStartTime' = start
     /\ IF forced
          THEN /\ transcriptBuffer' = <<>>
               /\ bufferTimeout' = Null
               /\ emitted' = FlushEvents(buf)
               /\ UNCHANGED << timers, timerCount >>
          ELSE /\ transcriptBuffer' = buf
               /\ timers' =
                    ClearBufferTimeout(timers)
                      \cup { [ id |-> handle, due |-> clock + BUFFER_DELAY_MS,
                               kind |-> "flush", proc |-> << >> ] }
               /\ timerCount' = handle
               /\ bufferTimeout' = handle
               /\ emitted' = <<>>
     /\ burst' = BurstAfter(text, emitted')
     /\ lastOp' = [op |-> "addToBuffer", forced |-> forced]
     /\ UNCHANGED << clock, procVars, serverVars, videoVars >>

\* The debounce timer's callback: () => this.flushBuffer()
FlushTimer(t) ==
  /\ t \in DueTimers
  /\ t.kind = "flush"
  /\ timers' = timers \ {t}
  /\ IF transcriptBuffer = <<>>
       THEN /\ emitted' = <<>>
            /\ UNCHANGED << transcriptBuffer, bufferTimeout >>
       ELSE /\ transcriptBuffer' = <<>>
            /\ bufferTimeout' = Null
            /\ emitted' = FlushEvents(transcriptBuffer)
  /\ burst' = [burst EXCEPT !.events = @ \o emitted']
  /\ lastOp' = [op |-> "flushTimer", handle |-> t.id]
  /\ UNCHANGED << clock, timerCount, bufferStartTime, fragCount, procVars,
                  serverVars, videoVars >>

\* Time passes: up to the next callback that falls due, TickMs at most.
Advance ==
  LET limits == {clock + TickMs, MaxClock} \cup {t.due : t \in timers}
  IN /\ clock < MaxClock
     /\ DueTimers = {}
     /\ \A p \in DOMAIN procs : procs[p].sigkill => procs[p].exited
     /\ clock' = Min(limits)
     /\ emitted' = <<>>
     /\ lastOp' = [op |-> "advance"]
     /\ UNCHANGED << timers, timerCount, transcriptBuffer, bufferTimeout,
                     bufferStartTime, fragCount, burst, procVars, serverVars,
                     videoVars >>

(***************************************************************************)
(* The capture supervisors: TwitchAudioCapture (record loop, stop,         *)
(* killProcess) and TwitchStreamCapture (capture loop, the two stages of   *)
(* captureWithStreamlink, stop, isStreamLive).  A process emits "exit" and *)
(* "close" in one step.  A spawn that fails emits "error" on the next tick *)
(* of the call, so its handler runs in the step of the call.               *)
(***************************************************************************)
\* A ChildProcess object is named by its owner, its attempt and its program.
Proc(owner, k, program) == << owner, k, program >>
ChunkProcs(k) == {Proc("audio", k, "streamlink"), Proc("audio", k, "ffmpeg")}

\* spawn(): the process runs, no signal has been sent to it.
NewProcess == [killed |-> FALSE, exited |-> FALSE, sigkill |-> FALSE]
Spawn(ps, ids) ==
  [p \in DOMAIN ps \cup ids |-> IF p \in ids THEN NewProcess ELSE ps[p]]

\* proc.kill() on each process of S: the signal is delivered, and
\* proc.killed becomes true, only while the process has not exited.
KillAll(ps, S) ==
  [ p \in DOMAIN ps |->
      IF p \in S /\ ~ps[p].exited THEN [ps[p] EXCEPT !.killed = TRUE]
      ELSE ps[p] ]

\* await Promise.all(killPromises): stop() goes on when none is unresolved.
StopResumes(waiting) == stopState.audio = "waiting" /\ waiting = {}

Timer(due, kind, p) == [id |-> 0, due |-> due, kind |-> kind, proc |-> p]
\* clearTimeout of the timer of that kind set for process p
ClearTimers(ts, kind, p) == {t \in ts : ~(t.kind = kind /\ t.proc = p)}

\* if (this.isRunning) { console.warn("Already running"); return }
AlreadyRunning(owner) == isRunning[owner]

\* A capture attempt whose promise (recordChunk, captureWithStreamlink) is
\* pending; loop says that the capture loop itself awaits it.
NewAttempt(loop) ==
  [stage |-> "acquiring", settled |-> "pending", loop |-> loop,
   timedOut |-> FALSE]

\* Mutant: the catch of the record loop ends the loop.
SleepNever(ts, p) == ts

\* recordLoop's catch: console.error(...); await this.sleep(2000)
Sleep(ts, p) == ts \cup {Timer(clock + 2000, "sleep", p)}

\* recordChunk(chunkFile) of chunk k, to the end of the tick it is called
\* in.  When streamlink cannot be spawned its "error" handler runs: cleanup()
\* signals ffmpeg and arms the untrack timer, the promise is rejected, the
\* loop's catch starts sleep(2000); streamlink's "close" untracks it.
RecordChunk(k, spawnOk, ps, act, ts, att) ==
  LET ffmpeg == Proc("audio", k, "ffmpeg")
      key == << "audio", k >>
  IN IF spawnOk
       THEN [ procs |-> Spawn(ps, ChunkProcs(k)),
              active |-> act \cup ChunkProcs(k),
              timers |-> ts \cup {Timer(clock + CHUNK_TIMEOUT_MS,
                                        "chunkTimeout", ffmpeg)},
              attempts |-> MapPut(att, key, NewAttempt(TRUE)) ]
       ELSE [ procs |-> KillAll(Spawn(ps, {ffmpeg}), {ffmpeg}),
              active |-> act \cup {ffmpeg},
              timers |-> Sleep(ts \cup {Timer(clock + 1000, "untrack", ffmpeg)},
                               ffmpeg),
              attempts |->
                MapPut(att, key, [NewAttempt(TRUE) EXCEPT
                                    !.stage = "abandoned",
                                    !.settled = "rejected"]) ]

\* recordLoop: while (this.isRunning) { ... await this.recordChunk(...) },
\* the next iteration.
LoopGoesOn == isRunning.audio /\ chunkIndex < MaxChunks

NextChunk(spawnOk, ps, act, ts, att) ==
  IF LoopGoesOn
    THEN RecordChunk(chunkIndex + 1, spawnOk, ps, act, ts, att)
    ELSE [procs |-> ps, active |-> act, timers |-> ts, attempts |-> att]

\* TwitchAudioCapture.start(): the record loop spawns the first chunk's
\* processes.
AudioStart(spawnOk) ==
  LET already == AlreadyRunning("audio")
      r == RecordChunk(chunkIndex + 1, spawnOk, procs, activeProcesses,
                       timers, attempts)
  IN /\ DueTimers = {}
     /\ already \/ chunkIndex < MaxChunks
     /\ IF already
          THEN UNCHANGED << isRunning, chunkIndex, procs, activeProcesses,
                            timers, attempts >>
          ELSE /\ isRunning' = [isRunning EXCEPT !.audio = TRUE]
               /\ chunkIndex' = chunkIndex + 1
               /\ procs' = r.procs
               /\ activeProcesses' = r.active
               /\ timers' = r.timers
               /\ attempts' = r.attempts
     /\ emitted' = <<>>
     /\ lastOp' = [op |-> "audioStart", already |-> already]
     /\ UNCHANGED << clock, timerCount, transcriptBuffer, bufferTimeout,
                     bufferStartTime, fragCount, burst, videoProcesses,
                     killWaiting, stopState, tracked, captureInterval,
                     frameIndex, files, probes, serverVars >>

\* TwitchAudioCapture.stop(), up to its await (and to its end when no
\* promise is left to wait for).
AudioStop ==
  LET done == {p \in activeProcesses : procs[p].killed \/ procs[p].exited}
      wait == activeProcesses \ done
      returns == wait = {}
      \* an attempt is in flight until its ffmpeg has closed
      inFlight ==
        {p \in activeProcesses : ~procs[Proc("audio", p[2], "ffmpeg")].exited}
  IN /\ stopState.audio # "waiting"
     /\ DueTimers = {}
     /\ isRunning' = [isRunning EXCEPT !.audio = FALSE]
     /\ procs' = KillAll(procs, wait)
     /\ killWaiting' = wait
     /\ tracked' = [tracked EXCEPT !.audio = @ \cup inFlight]
     /\ activeProcesses' = wait
     /\ timers' =
          (IF returns THEN ClearBufferTimeout(timers) ELSE timers)
            \cup {Timer(clock + 2000, "sigkill", p) : p \in wait}
            \cup {Timer(clock + 3000, "giveup", p) : p \in wait}
     /\ bufferTimeout' = IF returns THEN Null ELSE bufferTimeout
     /\ stopState' =
          [stopState EXCEPT !.audio = IF returns THEN "returned" ELSE "waiting"]
     /\ emitted' = <<>>
     /\ lastOp' = [op |-> "audioStop", returned |-> returns]
     /\ UNCHANGED << clock, timerCount, transcriptBuffer, bufferStartTime,
                     fragCount, burst, videoProcesses, chunkIndex, serverVars,
                     videoVars >>

\* A process of the audio capture exits: its "exit" and "close" handlers run
\* (the cleanup of killProcess, the handlers of recordChunk), and then the
\* continuations they resolve: stop() finishes, the record loop goes into
\* its next iteration.
ProcExit(p, spawnOk) ==
  LET k == p[2]
      key == << "audio", k >>
      exited == [procs EXCEPT ![p].exited = TRUE]
      \* ffmpegProc.on("close"): clearTimeout(timeout); cleanup(); resolve()
      settles == p[3] = "ffmpeg" /\ attempts[key].settled = "pending"
      cleaned == IF settles THEN KillAll(exited, ChunkProcs(k)) ELSE exited
      ts1 ==
        IF settles
          THEN ClearTimers(timers, "chunkTimeout", p)
                 \cup {Timer(clock + 1000, "untrack", p)}
          ELSE timers
      att1 ==
        IF settles
          THEN [attempts EXCEPT ![key].settled = "resolved",
                                ![key].stage = "recorded"]
          ELSE attempts
      waiting == killWaiting \ {p}
      resumes == p \in killWaiting /\ StopResumes(waiting)
      untracked ==
        IF p[3] = "streamlink" \/ p \in killWaiting
          THEN activeProcesses \ {p} ELSE activeProcesses
      \* stop() resumes on "exit", before "close" lets the loop go on
      act1 == IF resumes THEN {} ELSE untracked
      ts2 == IF resumes THEN ClearBufferTimeout(ts1) ELSE ts1
      r == IF settles THEN NextChunk(spawnOk, cleaned, act1, ts2, att1)
           ELSE [ procs |-> cleaned, active |-> act1, timers |-> ts2,
                  attempts |-> att1 ]
  IN /\ p \in DOMAIN procs
     /\ p[1] = "audio"
     /\ ~procs[p].exited
     /\ DueTimers = {}
     /\ procs' = r.procs
     /\ chunkIndex' = IF settles /\ LoopGoesOn THEN chunkIndex + 1 ELSE chunkIndex
     /\ killWaiting' = waiting
     /\ activeProcesses' = r.active
     /\ timers' = r.timers
     /\ attempts' = r.attempts
     /\ bufferTimeout' = IF resumes THEN Null ELSE bufferTimeout
     /\ stopState' =
          IF resumes THEN [stopState EXCEPT !.audio = "returned"] ELSE stopState
     /\ emitted' = <<>>
     /\ lastOp' = [op |-> "procExit", proc |-> p, returned |-> resumes]
     /\ UNCHANGED << clock, timerCount, transcriptBuffer, bufferStartTime,
                     fragCount, burst, isRunning, tracked, videoProcesses,
                     captureInterval, frameIndex, files, probes, serverVars >>

\* recordChunk: setTimeout(() => { cleanup(); resolve() },
\* (chunkDurationSeconds + 5) * 1000), and the loop's next iteration.
ChunkTimeout(t, spawnOk) ==
  LET p == t.proc
      k == p[2]
      key == << "audio", k >>
      r == NextChunk(spawnOk, KillAll(procs, ChunkProcs(k)), activeProcesses,
                     (timers \ {t}) \cup {Timer(clock + 1000, "untrack", p)},
                     [attempts EXCEPT ![key].settled = "resolved",
                                      ![key].stage = "recorded",
                                      ![key].timedOut = TRUE])
  IN /\ t \in DueTimers
     /\ t.kind = "chunkTimeout"
     /\ procs' = r.procs
     /\ chunkIndex' = IF LoopGoesOn THEN chunkIndex + 1 ELSE chunkIndex
     /\ activeProcesses' = r.active
     /\ timers' = r.timers
     /\ attempts' = r.attempts
     /\ emitted' = <<>>
     /\ lastOp' = [op |-> "chunkTimeout", proc |-> p]
     /\ UNCHANGED << clock, timerCount, transcriptBuffer, bufferTimeout,
                     bufferStartTime, fragCount, burst, isRunning, killWaiting,
                     stopState, tracked, videoProcesses, captureInterval,
                     frameIndex, files, probes, serverVars >>

\* recordLoop's catch: await this.sleep(2000), and the next iteration.
SleepTimer(t, spawnOk) ==
  LET r == NextChunk(spawnOk, procs, activeProcesses, timers \ {t}, attempts)
  IN /\ t \in DueTimers
     /\ t.kind = "sleep"
     /\ procs' = r.procs
     /\ chunkIndex' = IF LoopGoesOn THEN chunkIndex + 1 ELSE chunkIndex
     /\ activeProcesses' = r.active
     /\ timers' = r.timers
     /\ attempts' = r.attempts
     /\ emitted' = <<>>
     /\ lastOp' = [op |-> "sleepTimer", proc |-> t.proc]
     /\ UNCHANGED << clock, timerCount, transcriptBuffer, bufferTimeout,
                     bufferStartTime, fragCount, burst, isRunning, killWaiting,
                     stopState, tracked, videoProcesses, captureInterval,
                     frameIndex, files, probes, serverVars >>

\* killProcess: setTimeout(() => { if (!proc.killed && proc.exitCode ===
\* null) proc.kill("SIGKILL") }, 2000)
SigKillTimer(t) ==
  LET p == t.proc
  IN /\ t \in DueTimers
     /\ t.kind = "sigkill"
     /\ timers' = timers \ {t}
     /\ procs' =
          IF ~procs[p].killed /\ ~procs[p].exited
            THEN [procs EXCEPT ![p].killed = TRUE, ![p].sigkill = TRUE]
            ELSE procs
     /\ emitted' = <<>>
     /\ lastOp' = [op |-> "sigkillTimer", proc |-> p]
     /\ UNCHANGED << clock, timerCount, transcriptBuffer, bufferTimeout,
                     bufferStartTime, fragCount, burst, activeProcesses,
                     videoProcesses, isRunning, chunkIndex, killWaiting,
                     stopState, tracked, serverVars, videoVars >>

\* killProcess: setTimeout(cleanup, 3000), "resolve after 3 seconds max
\* regardless".
GiveUpTimer(t) ==
  LET p == t.proc
      waiting == killWaiting \ {p}
      resumes == p \in killWaiting /\ StopResumes(waiting)
  IN /\ t \in DueTimers
     /\ t.kind = "giveup"
     /\ killWaiting' = waiting
     /\ activeProcesses' = IF resumes THEN {} ELSE activeProcesses \ {p}
     /\ timers' =
          (IF resumes THEN ClearBufferTimeout(timers) ELSE timers) \ {t}
     /\ bufferTimeout' = IF resumes THEN Null ELSE bufferTimeout
     /\ stopState' =
          IF resumes THEN [stopState EXCEPT !.audio = "returned"] ELSE stopState
     /\ emitted' = <<>>
     /\ lastOp' = [op |-> "giveupTimer", proc |-> p, returned |-> resumes]
     /\ UNCHANGED << clock, timerCount, transcriptBuffer, bufferStartTime,
                     fragCount, burst, procs, videoProcesses, isRunning,
                     chunkIndex, tracked, serverVars, videoVars >>

\* recordChunk's cleanup: setTimeout(() => { activeProcesses.delete(...) },
\* 1000) for the two processes of the chunk.
UntrackTimer(t) ==
  /\ t \in DueTimers
  /\ t.kind = "untrack"
  /\ timers' = timers \ {t}
  /\ activeProcesses' = activeProcesses \ ChunkProcs(t.proc[2])
  /\ emitted' = <<>>
  /\ lastOp' = [op |-> "untrackTimer", proc |-> t.proc]
  /\ UNCHANGED << clock, timerCount, transcriptBuffer, bufferTimeout,
                  bufferStartTime, fragCount, burst, procs, videoProcesses,
                  isRunning, chunkIndex, killWaiting, stopState, tracked,
                  serverVars, videoVars >>

\* Time passes until the next setTimeout or setInterval callback falls due.
AdvanceToTimer ==
  /\ timers # {}
  /\ DueTimers = {}
  /\ \A p \in DOMAIN procs : procs[p].sigkill => procs[p].exited
  /\ clock' = Min({t.due : t \in timers})
  /\ emitted' = <<>>
  /\ lastOp' = [op |-> "advance"]
  /\ UNCHANGED << timers, timerCount, transcriptBuffer, bufferTimeout,
                  bufferStartTime, fragCount, burst, procVars, serverVars,
                  videoVars >>

(***************************************************************************)
(* TwitchStreamCapture.  Attempt k downloads the segment temp-<now>.ts     *)
(* with streamlink and extracts the image frame-<k>.<format> from it with  *)
(* ffmpeg; both files are in /tmp/twitch-capture.                          *)
(***************************************************************************)
Segment(k) == << "segment", k >>
Image(k) == << "image", k >>

\* captureFrame() from the moment the promise of captureWithStreamlink is
\* settled: the frame is read, unlinked and handed to the handlers, or the
\* failure is logged and the image, if there is one, unlinked.  A promise
\* that is settled stays as it is.
Settle(att, fs, k, outcome) ==
  LET key == << "video", k >>
  IN IF att[key].settled # "pending" THEN [attempts |-> att, files |-> fs]
     ELSE IF outcome = "resolved"
       THEN [ attempts |->
                [att EXCEPT ![key].settled = "resolved",
                            ![key].stage = IF Image(k) \in fs
                                             THEN "delivered" ELSE "abandoned"],
              files |-> fs \ {Image(k)} ]
       ELSE [ attempts |-> [att EXCEPT ![key].settled = "rejected",
                                       ![key].stage = "abandoned"],
              files |-> fs \ {Image(k)} ]

\* captureFrame() of attempt k, to the end of the tick it is called in, with
\* ts the timers pending: captureWithStreamlink spawns streamlink and arms
\* the timeout; or streamlink cannot be spawned and its "error" handler
\* rejects the promise.
CaptureFrame(k, spawnOk, loop, ts) ==
  LET streamlink == Proc("video", k, "streamlink")
      key == << "video", k >>
  IN IF spawnOk
       THEN [ procs |-> Spawn(procs, {streamlink}),
              active |-> videoProcesses \cup {streamlink},
              timers |-> ts \cup {Timer(clock + ACQUIRE_TIMEOUT_MS,
                                        "acquireTimeout", streamlink)},
              attempts |-> MapPut(attempts, key, NewAttempt(loop)),
              files |-> files ]
       ELSE [ procs |-> procs,
              active |-> videoProcesses,
              timers |-> ts,
              attempts |->
                MapPut(attempts, key, [NewAttempt(loop) EXCEPT
                                         !.stage = "abandoned",
                                         !.settled = "rejected"]),
              files |-> files \ {Segment(k), Image(k)} ]

\* The state a handler of the video capture leaves, r; when the attempt the
\* capture loop awaits has been settled the loop goes on to setInterval.
VideoUpdate(r) ==
  LET resumed ==
        \E key \in DOMAIN r.attempts :
          /\ key[1] = "video"
          /\ r.attempts[key].loop
          /\ r.attempts[key].settled # "pending"
          /\ key \in DOMAIN attempts => attempts[key].settled = "pending"
      handle == timerCount + 1
  IN /\ procs' = r.procs
     /\ videoProcesses' = r.active
     /\ attempts' = r.attempts
     /\ files' = r.files
     /\ IF resumed
          THEN /\ timers' =
                    r.timers \cup { [ id |-> handle,
                                      due |-> clock + screenshotIntervalMs,
                                      kind |-> "interval", proc |-> << >> ] }
               /\ timerCount' = handle
               /\ captureInterval' = handle
          ELSE /\ timers' = r.timers
               /\ UNCHANGED << timerCount, captureInterval >>

\* TwitchStreamCapture.start(): the capture loop captures the first frame.
VideoStart(spawnOk) ==
  LET already == AlreadyRunning("video")
      k == frameIndex + 1
  IN /\ DueTimers = {}
     /\ already \/ frameIndex < MaxAttempts
     /\ IF already
          THEN UNCHANGED << isRunning, frameIndex, procs, videoProcesses,
                            attempts, files, timers, timerCount,
                            captureInterval >>
          ELSE /\ isRunning' = [isRunning EXCEPT !.video = TRUE]
               /\ frameIndex' = k
               /\ VideoUpdate(CaptureFrame(k, spawnOk, TRUE, timers))
     /\ emitted' = <<>>
     /\ lastOp' = [op |-> "videoStart", already |-> already]
     /\ UNCHANGED << clock, transcriptBuffer, bufferTimeout, bufferStartTime,
                     fragCount, burst, activeProcesses, chunkIndex,
                     killWaiting, stopState, tracked, probes, serverVars >>

\* TwitchStreamCapture.stop()
VideoStop ==
  /\ DueTimers = {}
  /\ isRunning' = [isRunning EXCEPT !.video = FALSE]
  /\ timers' =
       IF captureInterval # Null THEN ClearTimeout(timers, captureInterval)
       ELSE timers
  /\ captureInterval' = Null
  /\ procs' = KillAll(procs, videoProcesses)
  /\ tracked' = [tracked EXCEPT !.video = @ \cup videoProcesses]
  /\ videoProcesses' = {}
  /\ stopState' = [stopState EXCEPT !.video = "returned"]
  /\ emitted' = <<>>
  /\ lastOp' = [op |-> "videoStop", returned |-> TRUE]
  /\ UNCHANGED << clock, timerCount, transcriptBuffer, bufferTimeout,
                  bufferStartTime, fragCount, burst, activeProcesses,
                  chunkIndex, killWaiting, frameIndex, attempts, files,
                  probes, serverVars >>

\* The setInterval callback of captureLoop: if (this.isRunning) await
\* this.captureFrame().  The interval is followed up to MaxVideoClock.
IntervalTick(t, spawnOk) ==
  LET rearm ==
        IF clock + screenshotIntervalMs <= MaxVideoClock
          THEN {[t EXCEPT !.due = clock + screenshotIntervalMs]} ELSE {}
      ts == (timers \ {t}) \cup rearm
      k == frameIndex + 1
  IN /\ t \in DueTimers
     /\ t.kind = "interval"
     /\ IF isRunning.video /\ frameIndex < MaxAttempts
          THEN /\ frameIndex' = k
               /\ VideoUpdate(CaptureFrame(k, spawnOk, FALSE, ts))
          ELSE /\ timers' = ts
               /\ UNCHANGED << frameIndex, procs, videoProcesses, attempts,
                               files, timerCount, captureInterval >>
     /\ emitted' = <<>>
     /\ lastOp' = [op |-> "intervalTick"]
     /\ UNCHANGED << clock, transcriptBuffer, bufferTimeout, bufferStartTime,
                     fragCount, burst, activeProcesses, isRunning, chunkIndex,
                     killWaiting, stopState, tracked, probes, serverVars >>

\* streamlink of attempt k writes its output file.
SegmentWritten(k) ==
  LET streamlink == Proc("video", k, "streamlink")
  IN /\ streamlink \in DOMAIN procs
     /\ ~procs[streamlink].exited
     /\ Segment(k) \notin files
     /\ DueTimers = {}
     /\ files' = files \cup {Segment(k)}
     /\ emitted' = <<>>
     /\ lastOp' = [op |-> "segmentWritten", attempt |-> k]
     /\ UNCHANGED << clock, timers, timerCount, transcriptBuffer,
                     bufferTimeout, bufferStartTime, fragCount, burst,
                     procVars, captureInterval, frameIndex, attempts, probes,
                     serverVars >>

\* Mutant: no extraction is started.
ExtractsNever(k, spawnOk) == FALSE

\* extractFrame(inputFile, outputFile) of attempt k, to the end of the tick:
\* ffmpeg runs, unless the segment is missing or ffmpeg cannot be spawned.
Extracts(k, spawnOk) == Segment(k) \in files /\ spawnOk

\* captureWithStreamlink: the 15 s timeout.  cleanupStreamlink(), then
\* extractFrame(...).then(resolve).catch(reject).
AcquireTimeout(t, spawnOk) ==
  LET streamlink == t.proc
      k == streamlink[2]
      key == << "video", k >>
      ffmpeg == Proc("video", k, "ffmpeg@timeout")
      extracts == Extracts(k, spawnOk)
      killed == KillAll(procs, {streamlink})
      att1 == [attempts EXCEPT ![key].timedOut = TRUE,
                               ![key].stage = IF extracts /\ @ = "acquiring"
                                                THEN "extracting" ELSE @]
      s == IF extracts THEN [attempts |-> att1, files |-> files]
           ELSE Settle(att1, files, k, "rejected")
  IN /\ t \in DueTimers
     /\ t.kind = "acquireTimeout"
     /\ VideoUpdate(
          [ procs |-> IF extracts THEN Spawn(killed, {ffmpeg}) ELSE killed,
            active |-> (videoProcesses \ {streamlink})
                         \cup (IF extracts THEN {ffmpeg} ELSE {}),
            timers |-> timers \ {t},
            attempts |-> s.attempts,
            files |-> s.files ])
     /\ emitted' = <<>>
     /\ lastOp' = [op |-> "acquireTimeout", attempt |-> k,
                   spawnOk |-> spawnOk]
     /\ UNCHANGED << clock, transcriptBuffer, bufferTimeout, bufferStartTime,
                     fragCount, burst, activeProcesses, isRunning, chunkIndex,
                     killWaiting, stopState, tracked, frameIndex, probes,
                     serverVars >>

\* streamlink.on("close"): clearTimeout(timeout), then extractFrame(...)
\* .then(resolve).catch(reject).finally(unlink the segment).
StreamlinkClose(p, spawnOk) ==
  LET k == p[2]
      key == << "video", k >>
      ffmpeg == Proc("video", k, "ffmpeg")
      extracts == Extracts(k, spawnOk)
      exited == [procs EXCEPT ![p].exited = TRUE]
      att1 == [attempts EXCEPT ![key].stage = IF extracts /\ @ = "acquiring"
                                                THEN "extracting" ELSE @]
      s == IF extracts THEN [attempts |-> att1, files |-> files]
           ELSE Settle(att1, files, k, "rejected")
  IN /\ p \in DOMAIN procs
     /\ p[1] = "video" /\ p[3] = "streamlink"
     /\ ~procs[p].exited
     /\ DueTimers = {}
     /\ VideoUpdate(
          [ procs |-> IF extracts THEN Spawn(exited, {ffmpeg}) ELSE exited,
            active |-> (videoProcesses \ {p})
                         \cup (IF extracts THEN {ffmpeg} ELSE {}),
            timers |-> ClearTimers(timers, "acquireTimeout", p),
            attempts |-> s.attempts,
            files |-> IF extracts THEN s.files ELSE s.files \ {Segment(k)} ])
     /\ emitted' = <<>>
     /\ lastOp' = [op |-> "streamlinkClose", attempt |-> k]
     /\ UNCHANGED << clock, transcriptBuffer, bufferTimeout, bufferStartTime,
                     fragCount, burst, activeProcesses, isRunning, chunkIndex,
                     killWaiting, stopState, tracked, frameIndex, probes,
                     serverVars >>

\* ffmpeg.on("close") of extractFrame: resolve if the exit code is 0 and the
\* image exists, reject otherwise; the extraction that streamlink's "close"
\* started then unlinks the segment.  wrote: ffmpeg has written the image.
FfmpegClose(p, code0, wrote) ==
  LET k == p[2]
      fs1 == IF wrote THEN files \cup {Image(k)} ELSE files
      ok == code0 /\ Image(k) \in fs1
      s == Settle(attempts, fs1, k, IF ok THEN "resolved" ELSE "rejected")
  IN /\ p \in DOMAIN procs
     /\ p[1] = "video" /\ p[3] \in {"ffmpeg", "ffmpeg@timeout"}
     /\ ~procs[p].exited
     /\ DueTimers = {}
     /\ VideoUpdate(
          [ procs |-> [procs EXCEPT ![p].exited = TRUE],
            active |-> videoProcesses \ {p},
            timers |-> timers,
            attempts |-> s.attempts,
            files |-> IF p[3] = "ffmpeg" THEN s.files \ {Segment(k)}
                      ELSE s.files ])
     /\ emitted' = <<>>
     /\ lastOp' = [op |-> "ffmpegClose", proc |-> p, ok |-> ok]
     /\ UNCHANGED << clock, transcriptBuffer, bufferTimeout, bufferStartTime,
                     fragCount, burst, activeProcesses, isRunning, chunkIndex,
                     killWaiting, stopState, tracked, frameIndex, probes,
                     serverVars >>

(***************************************************************************)
(* TwitchStreamCapture.isStreamLive()                                      *)
(***************************************************************************)
\* Mutant: cleanup() does not look at its flag.
ProbeResolvedNever(n) == FALSE

\* if (resolved) return
ProbeResolved(n) == probes[n].resolved

\* cleanup(result) of probe n, called by a handler (by), on the probes pr:
\* resolve(result) is called, and the first call settles the promise.
ProbeCleanup(pr, n, result, by) ==
  IF ProbeResolved(n) THEN pr
  ELSE [pr EXCEPT ![n].resolved = TRUE,
                  ![n].calls = @ + 1,
                  ![n].result = IF pr[n].calls = 0 THEN result ELSE @,
                  ![n].by = IF pr[n].calls = 0 THEN by ELSE @]

\* isStreamLive(): the probe is spawned and its 10 s timeout armed; a probe
\* that cannot be spawned resolves false through its "error" handler.
IsStreamLive(spawnOk) ==
  LET n == Len(probes) + 1
      p == Proc("video", n, "probe")
      fresh == [ resolved |-> ~spawnOk, calls |-> IF spawnOk THEN 0 ELSE 1,
                 result |-> FALSE, close |-> "none",
                 by |-> IF spawnOk THEN "none" ELSE "error" ]
  IN /\ Len(probes) < MaxProbes
     /\ DueTimers = {}
     /\ probes' = Append(probes, fresh)
     /\ procs' = IF spawnOk THEN Spawn(procs, {p}) ELSE procs
     /\ videoProcesses' = IF spawnOk THEN videoProcesses \cup {p}
                          ELSE videoProcesses
     /\ timers' = timers \cup {Timer(clock + PROBE_TIMEOUT_MS, "probeTimeout", p)}
     /\ emitted' = <<>>
     /\ lastOp' = [op |-> "isStreamLive", probe |-> n]
     /\ UNCHANGED << clock, timerCount, transcriptBuffer, bufferTimeout,
                     bufferStartTime, fragCount, burst, activeProcesses,
                     isRunning, chunkIndex, killWaiting, stopState, tracked,
                     captureInterval, frameIndex, attempts, files,
                     serverVars >>

\* What the probe has printed when it closes: JSON with streams, JSON
\* without, or text JSON.parse rejects.
ProbeOutputs == {"streams", "noStreams", "garbage"}

\* streamlink.on("close", (code) => ...) of the probe.
ProbeClose(p, code0, output) ==
  LET n == p[2]
      closed == [probes EXCEPT ![n].close =
                   IF code0 THEN output ELSE "failed"]
  IN /\ p \in DOMAIN procs
     /\ p[1] = "video" /\ p[3] = "probe"
     /\ ~procs[p].exited
     /\ DueTimers = {}
     /\ procs' = [procs EXCEPT ![p].exited = TRUE]
     /\ videoProcesses' = videoProcesses \ {p}
     /\ probes' = IF probes[n].resolved THEN closed
                  ELSE ProbeCleanup(closed, n, code0 /\ output = "streams",
                                    "close")
     /\ emitted' = <<>>
     /\ lastOp' = [op |-> "probeClose", probe |-> n]
     /\ UNCHANGED << clock, timers, timerCount, transcriptBuffer,
                     bufferTimeout, bufferStartTime, fragCount, burst,
                     activeProcesses, isRunning, chunkIndex, killWaiting,
                     stopState, tracked, captureInterval, frameIndex,
                     attempts, files, serverVars >>

\* setTimeout(() => cleanup(false), 10000)
ProbeTimeout(t) ==
  LET p == t.proc
      n == p[2]
      first == ~ProbeResolved(n)
  IN /\ t \in DueTimers
     /\ t.kind = "probeTimeout"
     /\ timers' = timers \ {t}
     /\ probes' = ProbeCleanup(probes, n, FALSE, "timeout")
     /\ procs' = IF first THEN KillAll(procs, {p} \cap DOMAIN procs) ELSE procs
     /\ videoProcesses' = IF first THEN videoProcesses \ {p}
                          ELSE videoProcesses
     /\ emitted' = <<>>
     /\ lastOp' = [op |-> "probeTimeout", probe |-> n]
     /\ UNCHANGED << clock, timerCount, transcriptBuffer, bufferTimeout,
                     bufferStartTime, fragCount, burst, activeProcesses,
                     isRunning, chunkIndex, killWaiting, stopState, tracked,
                     captureInterval, frameIndex, attempts, files,
                     serverVars >>

(***************************************************************************)
(* Specifications.  Every one starts from the state after construction and *)
(* runs a group of the handlers above.                                     *)
(***************************************************************************)
RegisterMessages ==
  {r \in RawMessages : ~ReadThrows(r.value) /\ r.value.type = "register"}

\* The roster: connections, registrations, closes and liveness.
Next ==
  \/ \E req \in Requests : Connection(req)
  \/ \E ws \in Sockets, raw \in RegisterMessages : HandleClawMessage(ws, raw)
  \/ \E ws \in Sockets : WsClosing(ws)
  \/ \E ws \in Sockets : WsClose(ws)
  \/ \E isLive \in BOOLEAN : SetStreamLive(isLive)

InitHub == Init /\ enabled = FALSE

Spec == InitHub /\ [][Next]_vars

\* The router: the messages it acts on, with the clock running.
RoutedMessages ==
  {r \in RawMessages : MessageKind(r) \in {"register", "claw", "ping"}}

NextMsg ==
  \/ Tick
  \/ Connection(DirectRequest)
  \/ \E ws \in Sockets, raw \in RoutedMessages : HandleClawMessage(ws, raw)
  \/ BroadcastTranscript

SpecMsg == InitHub /\ [][NextMsg]_vars

\* The relay: subscribers register and send chat, reactions and
\* observations while Twitch chat comes in and the clock runs.
RelayMessages ==
  {r \in RawMessages : MessageKind(r) \in {"register", "claw"}}

NextRelay ==
  \/ Tick
  \/ Connection(DirectRequest)
  \/ \E ws \in Sockets, raw \in RelayMessages : HandleClawMessage(ws, raw)
  \/ BroadcastChatMessage(MaxChat)

SpecRelay == InitHub /\ [][NextRelay]_vars

\* Every inbound message, "null" included, against a hub that holds
\* participants, chat history and liveness.
NextInbound ==
  \/ Connection(DirectRequest)
  \/ \E ws \in Sockets, raw \in RawMessages : HandleClawMessage(ws, raw)
  \/ BroadcastChatMessage(MaxChat)
  \/ \E isLive \in BOOLEAN : SetStreamLive(isLive)

SpecInbound == InitHub /\ [][NextInbound]_vars

\* Snapshots taken while chat, frames and liveness change and claw "A"
\* registers.
RegisterA == {r \in RegisterMessages : r.value.clawId = "A"}

NextSnapshot ==
  \/ Connection(DirectRequest)
  \/ \E ws \in Sockets, raw \in RegisterA : HandleClawMessage(ws, raw)
  \/ BroadcastChatMessage(MaxChatSnapshot)
  \/ BroadcastFrame
  \/ \E isLive \in BOOLEAN : SetStreamLive(isLive)

SpecSnapshot == InitHub /\ [][NextSnapshot]_vars

\* The handlers of Spec, with every registration under one clawId.
NextMetrics ==
  \/ \E req \in Requests : Connection(req)
  \/ \E ws \in Sockets, raw \in RegisterA : HandleClawMessage(ws, raw)
  \/ \E ws \in Sockets : WsClosing(ws)
  \/ \E ws \in Sockets : WsClose(ws)
  \/ \E isLive \in BOOLEAN : SetStreamLive(isLive)

SpecMetrics == InitHub /\ [][NextMetrics]_vars

\* Subscribers come, go and come back while chat, frames and transcripts are
\* fanned out.
NextReplay ==
  \/ Connection(DirectRequest)
  \/ \E ws \in Sockets, raw \in RegisterA : HandleClawMessage(ws, raw)
  \/ \E ws \in Sockets : WsClose(ws)
  \/ BroadcastChatMessage(MaxChat)
  \/ BroadcastFrame
  \/ \E f \in inflight : DescriberSucceeds(f, "s1")
  \/ RunMicrotask
  \/ BroadcastTranscript

SpecReplay == Init /\ [][NextReplay]_vars

\* The fan-out next to connections that have not registered: sockets
\* connect, register or only ping, while state, chat, frames and transcripts
\* are fanned out.
PingMessages == {r \in RawMessages : MessageKind(r) = "ping"}

NextFanout ==
  \/ Connection(DirectRequest)
  \/ \E ws \in Sockets, raw \in RegisterA \cup PingMessages :
       HandleClawMessage(ws, raw)
  \/ BroadcastChatMessage(MaxChat)
  \/ BroadcastFrame
  \/ \E f \in inflight : DescriberSucceeds(f, "s1")
  \/ RunMicrotask
  \/ BroadcastTranscript
  \/ \E isLive \in BOOLEAN : SetStreamLive(isLive)

SpecFanout == Init /\ [][NextFanout]_vars

\* The chat history under a long run of Twitch chat.
NextChat ==
  \/ Connection(DirectRequest)
  \/ \E ws \in Sockets, raw \in RegisterMessages : HandleClawMessage(ws, raw)
  \/ BroadcastChatMessage(MaxChatLong)

SpecChat == InitHub /\ [][NextChat]_vars

\* Frames and the summarizer; every registration carries its clawId.
RegisterNamed == {r \in RegisterMessages : r.value.clawId # Undef}

NextFrame ==
  \/ Connection(DirectRequest)
  \/ \E ws \in Sockets, raw \in RegisterNamed : HandleClawMessage(ws, raw)
  \/ BroadcastFrame
  \/ \E f \in inflight, text \in Summaries : DescriberSucceeds(f, text)
  \/ \E f \in inflight : DescriberFails(f)
  \/ RunMicrotask

SpecFrame == Init /\ [][NextFrame]_vars

\* The transcript buffer of the audio capture.
NextCoalescer ==
  \/ AddToBuffer
  \/ \E t \in timers : FlushTimer(t)
  \/ Advance

SpecCoalescer == InitHub /\ [][NextCoalescer]_vars

\* The transcript buffer while stop() is never called: the timers that are
\* due fire and time passes.  A fragment arrives only while the clock leaves
\* room for its debounce timer.
FragmentArrives == clock + BUFFER_DELAY_MS <= MaxClock /\ AddToBuffer
TimerFires == \E t \in timers : FlushTimer(t)

NextDrain ==
  \/ FragmentArrives
  \/ TimerFires
  \/ Advance

SpecDrain ==
  /\ InitHub
  /\ [][NextDrain]_vars
  /\ WF_vars(TimerFires)
  /\ WF_vars(Advance)

\* The subprocesses of the audio capture from one start() to the end of one
\* stop(), while every spawn succeeds, up to MaxClock.
NextCapture ==
  \/ chunkIndex = 0 /\ AudioStart(TRUE)
  \/ stopState.audio = "idle" /\ AudioStop
  \/ \E p \in DOMAIN procs : ProcExit(p, TRUE)
  \/ \E t \in timers : SigKillTimer(t)
  \/ \E t \in timers : GiveUpTimer(t)
  \/ \E t \in timers : UntrackTimer(t)
  \/ Advance

SpecCapture == InitHub /\ [][NextCapture]_vars

\* The transcriptions of the audio capture across stop(): transcribeChunk
\* is started for a chunk recorded while the loop is running, which is when
\* the loop has gone on to the next chunk, and its request completes at any
\* later time with a fragment for addToBuffer.
TranscriptionsStarted ==
  {k \in 1..MaxChunks :
     /\ << "audio", k >> \in DOMAIN attempts
     /\ attempts[<< "audio", k >>].stage = "recorded"
     /\ << "audio", k + 1 >> \in DOMAIN attempts}

TranscriptionCompletes ==
  /\ fragCount < Cardinality(TranscriptionsStarted)
  /\ AddToBuffer

NextTranscribe ==
  \/ chunkIndex = 0 /\ AudioStart(TRUE)
  \/ stopState.audio = "idle" /\ AudioStop
  \/ \E p \in DOMAIN procs : ProcExit(p, TRUE)
  \/ TranscriptionCompletes
  \/ TimerFires
  \/ \E t \in timers : SigKillTimer(t)
  \/ \E t \in timers : UntrackTimer(t)
  \/ AdvanceToTimer

SpecTranscribe == InitHub /\ [][NextTranscribe]_vars

\* The video capture.
NextVideo ==
  \/ \E spawnOk \in BOOLEAN : VideoStart(spawnOk)
  \/ VideoStop
  \/ \E t \in timers, spawnOk \in BOOLEAN : IntervalTick(t, spawnOk)
  \/ \E k \in 1..MaxAttempts : SegmentWritten(k)
  \/ \E t \in timers, spawnOk \in BOOLEAN : AcquireTimeout(t, spawnOk)
  \/ \E p \in DOMAIN procs, spawnOk \in BOOLEAN : StreamlinkClose(p, spawnOk)
  \/ \E p \in DOMAIN procs, code0, wrote \in BOOLEAN :
       FfmpegClose(p, code0, wrote)
  \/ AdvanceToTimer

SpecVideo == InitHub /\ [][NextVideo]_vars

\* The capture loop of either supervisor while it is running: start() is
\* called on one of the two and stop() on none.  Time passes, a callback
\* that is due runs, and an ffmpeg that extracts a frame ends.
AudioLoopStep ==
  \/ \E spawnOk \in BOOLEAN : frameIndex = 0 /\ AudioStart(spawnOk)
  \/ \E p \in DOMAIN procs, spawnOk \in BOOLEAN : ProcExit(p, spawnOk)

VideoLoopStep ==
  \/ \E spawnOk \in BOOLEAN : chunkIndex = 0 /\ VideoStart(spawnOk)
  \/ \E k \in 1..MaxAttempts : SegmentWritten(k)
  \/ \E p \in DOMAIN procs, spawnOk \in BOOLEAN : StreamlinkClose(p, spawnOk)

TimerStep ==
  \/ \E t \in timers, spawnOk \in BOOLEAN : ChunkTimeout(t, spawnOk)
  \/ \E t \in timers, spawnOk \in BOOLEAN : SleepTimer(t, spawnOk)
  \/ \E t \in timers : UntrackTimer(t)
  \/ \E t \in timers, spawnOk \in BOOLEAN : AcquireTimeout(t, spawnOk)
  \/ \E t \in timers, spawnOk \in BOOLEAN : IntervalTick(t, spawnOk)

ExtractionEnds ==
  \E p \in DOMAIN procs, code0, wrote \in BOOLEAN : FfmpegClose(p, code0, wrote)

NextLoop ==
  \/ AudioLoopStep
  \/ VideoLoopStep
  \/ TimerStep
  \/ ExtractionEnds
  \/ AdvanceToTimer

SpecLoop ==
  /\ InitHub
  /\ [][NextLoop]_vars
  /\ WF_vars(AdvanceToTimer)
  /\ WF_vars(TimerStep)
  /\ WF_vars(ExtractionEnds)

\* The probe of the video capture.
NextProbe ==
  \/ \E spawnOk \in BOOLEAN : IsStreamLive(spawnOk)
  \/ \E p \in DOMAIN procs, code0 \in BOOLEAN, output \in ProbeOutputs :
       ProbeClose(p, code0, output)
  \/ \E t \in timers : ProbeTimeout(t)
  \/ VideoStop
  \/ AdvanceToTimer

SpecProbe == InitHub /\ [][NextProbe]_vars

(***************************************************************************)
(* Properties.                                                             *)
(***************************************************************************)
\* The connections that are open and have registered: a connection leaves
\* pendingConnections when it registers.
RegisteredOpen ==
  {w \in Sockets : readyState[w] = "OPEN" /\ w \notin DOMAIN pendingConnections}

ParticipantIds(state) ==
  {state.participants[i].id : i \in DOMAIN state.participants}

SendsTo(ws) == SelectSeq(out, LAMBDA s : s.to = ws)

\* C1: once every close has been delivered (no socket is between OPEN and
\* its "close" event), the registry holds as many participants as there are
\* open registered connections, and no id twice.
C1_RegistryMatchesConnections ==
  (\A w \in Sockets : readyState[w] # "CLOSING") =>
    /\ Len(connectedClaws) = Cardinality(RegisteredOpen)
    /\ Cardinality(MapIds(connectedClaws)) = Len(connectedClaws)

\* C2: after a register, and after the close of a connection that had
\* registered, every subscriber of the registry has been sent exactly one
\* state message, and it lists exactly the participants of the registry.
C2_RosterBroadcast ==
  ( \/ (lastOp.op = "message" /\ lastOp.kind = "register")
    \/ (lastOp.op = "close" /\ lastOp.ws \notin DOMAIN pendingConnections) )
  => \A i \in DOMAIN connectedClaws :
       LET got == SendsTo(connectedClaws[i].ws)
       IN /\ Len(got) = 1
          /\ got[1].msg.type = "state"
          /\ ParticipantIds(got[1].msg.payload) = MapIds(connectedClaws)

\* C3: a setStreamLive call that repeats the current liveness (no edge)
\* sends no state message.
C3_LivenessEdgeOnly ==
  (lastOp.op = "setStreamLive" /\ ~lastOp.edge) => out = << >>

\* C4 (as claimed): a chat message received from a subscriber is sent to
\* every open registered subscriber as a chat message.
C4_ChatRebroadcast ==
  (lastOp.op = "message" /\ lastOp.kind = "claw" /\ lastOp.type = "chat")
  => \A i \in DOMAIN connectedClaws :
       readyState[connectedClaws[i].ws] = "OPEN" =>
         \E k \in DOMAIN out :
           out[k].to = connectedClaws[i].ws /\ out[k].msg.type = "chat"

\* C4 (amended): a chat message received from a subscriber is handed once
\* to the outbound consumer, which passes it on to the Twitch client, and
\* the hub sends nothing to any subscriber for it.
C4_ChatToConsumersOnly ==
  (lastOp.op = "message" /\ lastOp.kind = "claw" /\ lastOp.type = "chat")
  => /\ out = << >>
     /\ Len(handled) = 1
     /\ handled[1].type = "chat"
     /\ twitchOut = << [ clawName |-> handled[1].clawName,
                         content |-> handled[1].content ] >>

C4_Witness ==
  /\ lastOp.op = "message" /\ lastOp.kind = "claw" /\ lastOp.type = "chat"
  /\ Len(connectedClaws) = 2
  /\ \A i \in DOMAIN connectedClaws : readyState[connectedClaws[i].ws] = "OPEN"
  /\ twitchOut # << >>

\* C5: the chat history holds the min(n, maxChatHistory) most recent of the
\* n chat messages delivered so far, in the order they came.
C5_ChatHistoryBounded ==
  /\ Len(recentChat) =
       IF chatCount < maxChatHistory THEN chatCount ELSE maxChatHistory
  /\ \A i \in DOMAIN recentChat :
       recentChat[i].seq = chatCount - Len(recentChat) + i

C5_Witness ==
  /\ chatCount = maxChatHistory + 2
  /\ Len(recentChat) = maxChatHistory
  /\ recentChat[1].seq = 3
  /\ lastOp.op = "broadcastChatMessage"

\* C6: the snapshot sent to a connection when it is accepted carries the
\* argument of the latest setStreamLive call (offline before the first).
C6_SnapshotLiveness ==
  lastOp.op = "connection" =>
    /\ Len(out) = 1
    /\ out[1].to = lastOp.ws
    /\ out[1].msg.type = "state"
    /\ out[1].msg.payload.isLive = obs.lastLiveArg

C6_Witness ==
  /\ lastOp.op = "connection"
  /\ lastOp.ws = 2
  /\ obs.lastLiveArg
  /\ out[1].msg.payload.isLive

\* C7: at most one describer request is in flight.
C7_SingleFlight == Cardinality(inflight) <= 1

C7_Witness ==
  /\ lastOp.op = "broadcastFrame" /\ lastOp.guarded
  /\ Cardinality(inflight) = 1

\* C8: a summarizeFrame call made while a request is in flight resolves at
\* once with the summary that was cached when that request started, and
\* issues no request of its own.
C8_GuardedCallsReturnCached ==
  (lastOp.op = "broadcastFrame" /\ lastOp.guarded) =>
    /\ microtasks = << [frame |-> lastOp.frame, summary |-> obs.cachedAtStart] >>
    /\ lastOp.frame \notin inflight
    /\ inflight # {}

\* Frame 3 meets the guard while the request of frame 2 is in flight, and
\* the cache holds the summary of frame 1.
C8_Witness ==
  /\ lastOp.op = "broadcastFrame" /\ lastOp.guarded
  /\ obs.cachedAtStart = "s1"
  /\ microtasks[1].summary = "s1"

\* C9: a failed describer call resolves with the summary of the last
\* successful call and leaves the cache at that summary.
C9_FailureFallsBack ==
  lastOp.op = "describerFailed" =>
    /\ Len(microtasks) = 1
    /\ microtasks[1].frame = lastOp.frame
    /\ microtasks[1].summary = obs.lastGood
    /\ lastSummary = obs.lastGood

C9_Witness ==
  /\ lastOp.op = "describerFailed"
  /\ obs.lastGood = "s1"
  /\ microtasks[1].summary = "s1"

\* C10: with the summarizer enabled, broadcastFrame makes the frame the
\* current frame and sends nothing; a frame's fan-out pass has not run while
\* its summary attempt is pending and has run exactly once afterwards; the
\* pass sends frame messages of that frame, with the resolved summary when
\* it is not empty.
FramePending(f) ==
  f \in inflight \/ \E i \in DOMAIN microtasks : microtasks[i].frame = f

C10_DeferredFrameBroadcast ==
  enabled =>
    /\ \A f \in DOMAIN frames :
         obs.passes[f] = IF FramePending(f) THEN 0 ELSE 1
    /\ lastOp.op = "broadcastFrame" =>
         /\ currentFrame = lastOp.frame
         /\ FramePending(lastOp.frame)
         /\ out = << >>
    /\ lastOp.op = "frameSent" =>
         \A k \in DOMAIN out :
           /\ out[k].msg.type = "frame"
           /\ out[k].msg.payload.id = lastOp.frame
           /\ lastOp.summary # "" =>
                out[k].msg.payload.summary = lastOp.summary

C10_Witness ==
  /\ enabled
  /\ lastOp.op = "frameSent"
  /\ lastOp.summary = "s2"
  /\ Len(out) = 2
  /\ out[1].msg.payload.summary = "s2"

\* text is the fragments frags, in order, with one space between neighbours.
RECURSIVE JoinedBySingleSpaces(_, _)
JoinedBySingleSpaces(text, frags) ==
  IF frags = <<>> THEN text = <<>>
  ELSE LET f == Head(frags)
           n == Len(f)
       IN /\ Len(text) >= n
          /\ SubSeq(text, 1, n) = f
          /\ IF Len(frags) = 1 THEN Len(text) = n
             ELSE /\ Len(text) > n + 1
                  /\ text[n + 1] = " "
                  /\ JoinedBySingleSpaces(SubSeq(text, n + 2, Len(text)),
                                          Tail(frags))

\* C11: a run of fragments whose gaps are all shorter than BUFFER_DELAY_MS
\* and whose span is below MAX_BUFFER_TIME_MS produces no transcript until
\* one debounce delay after its last fragment, and then exactly one, stamped
\* with that instant, whose text is the fragments in arrival order joined by
\* single spaces.
C11_BurstCoalesced ==
  (fragCount > 0 /\ burst.last - burst.first < MAX_BUFFER_TIME_MS) =>
    IF clock < burst.last + BUFFER_DELAY_MS \/ DueTimers # {}
      THEN burst.events = <<>>
      ELSE /\ Len(burst.events) = 1
           /\ burst.events[1].timestamp = burst.last + BUFFER_DELAY_MS
           /\ JoinedBySingleSpaces(burst.events[1].text, burst.frags)

\* "a", "b", "c" 200 ms apart give one transcript "a b c", 1000 ms after "c".
C11_Witness ==
  /\ lastOp.op = "flushTimer"
  /\ burst.frags = << <<"a">>, <<"b">>, <<"c">> >>
  /\ burst.first = 0 /\ burst.last = 400
  /\ emitted = << [ text |-> <<"a", " ", "b", " ", "c">>,
                    timestamp |-> 1400 ] >>
  /\ burst.events = emitted

\* C12: while fragments keep arriving (the last one came less than
\* BUFFER_DELAY_MS ago), the buffer never holds a fragment for longer than
\* MAX_BUFFER_TIME_MS: it is flushed within that window of its first
\* fragment.
C12_FlushWithinMaxBufferTime ==
  (transcriptBuffer # <<>> /\ clock - burst.last < BUFFER_DELAY_MS)
    => clock - bufferStartTime <= MAX_BUFFER_TIME_MS

\* C13: when stop() of a capture class has returned, every process it
\* found tracked for a capture attempt in flight has exited.
C13_StopWaitsForExit ==
  \A o \in {"audio", "video"} :
    stopState[o] = "returned" => \A p \in tracked[o] : procs[p].exited

\* The last step ran a fan-out pass (private broadcast()).
PassRan ==
  \/ lastOp.op \in {"setStreamLive", "broadcastChatMessage",
                    "broadcastTranscript", "frameSent"}
  \/ (lastOp.op = "message" /\ lastOp.kind = "register")
  \/ (lastOp.op = "close" /\ lastOp.found)
  \/ (lastOp.op = "broadcastFrame" /\ ~enabled)

\* C14: a fan-out pass sends its message to every open registered
\* subscriber, whatever the state of the other entries it meets: after the
\* pass every connection left in the registry has been sent the message, and
\* all sends of the pass carry the same message.
C14_PassReachesEveryOpenSubscriber ==
  PassRan =>
    /\ \A i \in DOMAIN connectedClaws :
         \E k \in DOMAIN out : out[k].to = connectedClaws[i].ws
    /\ \A k \in DOMAIN out : out[k].msg = out[1].msg

\* Socket 2 registers while socket 1, registered before it, is closing: the
\* pass meets the dead entry first and still sends the state to socket 2.
C14_Witness ==
  /\ lastOp.op = "message" /\ lastOp.kind = "register" /\ lastOp.ws = 2
  /\ readyState[1] = "CLOSING"
  /\ Len(out) = 1 /\ out[1].to = 2
  /\ Len(out[1].msg.payload.participants) = 2
  /\ out[1].msg.payload.participants[1].id # out[1].msg.payload.participants[2].id
  /\ Len(connectedClaws) = 1 /\ connectedClaws[1].ws = 2

\* C15: after every fan-out pass all entries left in the registry have open
\* connections.
C15_NoStaleEntryAfterPass ==
  PassRan =>
    \A i \in DOMAIN connectedClaws : readyState[connectedClaws[i].ws] = "OPEN"

\* A setStreamLive pass finds two entries (its state message lists both),
\* one of them closing, and leaves only the open one.
C15_Witness ==
  /\ lastOp.op = "setStreamLive"
  /\ Len(out) = 1
  /\ Len(out[1].msg.payload.participants) = 2
  /\ Len(connectedClaws) = 1
  /\ out[1].to = connectedClaws[1].ws
  /\ \E w \in Sockets : readyState[w] = "CLOSING"

\* C16: a step that handles a message which is not valid JSON, or has no
\* known type, or is a register without id or name, changes neither the
\* registry nor the chat history, the current frame or the liveness, sends
\* nothing, and leaves the server running and the connection open.
DroppedKinds == {"invalid", "unknown", "badRegister", "throws"}

C16_MalformedDropped ==
  [][ (lastOp'.op = "message" /\ lastOp'.kind \in DroppedKinds) =>
        /\ UNCHANGED << connectedClaws, recentChat, currentFrame,
                        streamStartedAt >>
        /\ out' = << >>
        /\ ~crashed'
        /\ readyState'[lastOp'.ws] = "OPEN" ]_vars

\* C17: a step that handles a chat, reaction or observation message calls
\* the outbound consumer exactly once, with the message's type, with its
\* content, sender id and sender name as they came, and with Date.now() as
\* timestamp; the step changes neither the registry nor the chat history.
C17_ClawMessageHandedOnce ==
  [][ (lastOp'.op = "message" /\ lastOp'.kind = "claw") =>
        /\ UNCHANGED << connectedClaws, recentChat >>
        /\ Len(handled') = 1
        /\ handled'[1].type = lastOp'.message.type
        /\ lastOp'.message.content # Undef =>
             handled'[1].content = lastOp'.message.content
        /\ lastOp'.message.clawId # Undef =>
             handled'[1].clawId = lastOp'.message.clawId
        /\ lastOp'.message.clawName # Undef =>
             handled'[1].clawName = lastOp'.message.clawName
        /\ handled'[1].timestamp = now' ]_vars

\* A reaction arrives at a hub that holds a participant and chat history,
\* after the clock has moved.
C17_Witness ==
  /\ lastOp.op = "message" /\ lastOp.kind = "claw" /\ lastOp.type = "reaction"
  /\ handled =
       << [ type |-> "reaction", content |-> "wow", clawId |-> "A",
            clawName |-> "A", timestamp |-> 2 ] >>
  /\ now = 2
  /\ Len(connectedClaws) >= 1
  /\ Len(recentChat) = MaxChat

\* C18: a step that handles a ping sends one pong, stamped with Date.now(),
\* to the connection the ping came from and nothing else; it leaves every
\* participant bound to another connection as it was, changes nothing but
\* lastSeen, and sets lastSeen of the participant bound to the connection
\* to Date.now().
C18_PingTouchesOnlySender ==
  [][ (lastOp'.op = "message" /\ lastOp'.kind = "ping") =>
        LET ws == lastOp'.ws
            bound == {i \in DOMAIN connectedClaws : connectedClaws[i].ws = ws}
        IN /\ out' = << [ to |-> ws,
                          msg |-> [type |-> "pong", timestamp |-> now'] ] >>
           /\ DOMAIN connectedClaws' = DOMAIN connectedClaws
           /\ \A i \in DOMAIN connectedClaws \ bound :
                connectedClaws'[i] = connectedClaws[i]
           /\ \A i \in bound :
                [connectedClaws'[i] EXCEPT !.participant.lastSeen = 0]
                  = [connectedClaws[i] EXCEPT !.participant.lastSeen = 0]
           /\ Cardinality(bound) = 1 =>
                \A i \in bound : connectedClaws'[i].participant.lastSeen = now'
      ]_vars

\* Socket 2 pings at time 2; the participant of socket 1 keeps lastSeen 1.
C18_Witness ==
  /\ lastOp.op = "message" /\ lastOp.kind = "ping" /\ lastOp.ws = 2
  /\ now = 2
  /\ Len(connectedClaws) = 2
  /\ connectedClaws[1].ws = 1 /\ connectedClaws[1].participant.lastSeen = 1
  /\ connectedClaws[2].ws = 2 /\ connectedClaws[2].participant.lastSeen = 2
  /\ connectedClaws[2].participant.joinedAt = 1
  /\ Len(out) = 1 /\ out[1].to = 2 /\ out[1].msg.type = "pong"

\* C19: every state message carries the last min(20, n) of the n retained
\* chat messages, in their order, the liveness flag, the current frame and
\* the participants of the registry.
C19_SnapshotContents ==
  \A k \in DOMAIN out :
    out[k].msg.type = "state" =>
      LET st == out[k].msg.payload
          n == Len(recentChat)
          m == IF n < 20 THEN n ELSE 20
      IN /\ Len(st.recentChat) = m
         /\ \A j \in 1..m : st.recentChat[j] = recentChat[n - m + j]
         /\ st.isLive = (streamStartedAt # Null)
         /\ st.currentFrame.id = currentFrame
         /\ currentFrame # Null =>
              st.currentFrame.summary = frames[currentFrame]
         /\ st.participants =
              [i \in DOMAIN connectedClaws |-> connectedClaws[i].participant]

\* A connection is accepted when 22 chat messages have come in, the stream
\* is live, a frame is current and a participant is registered.
C19_Witness ==
  /\ lastOp.op = "connection"
  /\ Len(recentChat) = 22
  /\ Len(out) = 1
  /\ Len(out[1].msg.payload.recentChat) = 20
  /\ out[1].msg.payload.recentChat[1].seq = 3
  /\ out[1].msg.payload.recentChat[20].seq = 22
  /\ out[1].msg.payload.isLive
  /\ out[1].msg.payload.currentFrame.id = 2
  /\ Len(out[1].msg.payload.participants) = 1

\* C20: from one state to the next the cumulative connection count and the
\* count of every address reported by getMetrics() do not decrease, and in
\* every state the local and the foreign count add up to the number of
\* participants in the registry.
C20_MetricsMonotone ==
  [][ /\ getMetrics'.totalConnections >= getMetrics.totalConnections
      /\ \A ip \in DOMAIN getMetrics.connectionsByIP :
           /\ ip \in DOMAIN getMetrics'.connectionsByIP
           /\ getMetrics'.connectionsByIP[ip] >= getMetrics.connectionsByIP[ip]
      /\ getMetrics'.localConnections + getMetrics'.foreignConnections
           = Len(connectedClaws') ]_vars

\* Two connections were accepted, a local and a foreign one; both have
\* registered and the foreign one has closed.
C20_Witness ==
  /\ lastOp.op = "close"
  /\ getMetrics.totalConnections = 2
  /\ DOMAIN getMetrics.connectionsByIP = {IpLoopback, IpForeign}
  /\ getMetrics.connectionsByIP[IpLoopback] = 1
  /\ getMetrics.connectionsByIP[IpForeign] = 1
  /\ getMetrics.localConnections = 1
  /\ getMetrics.foreignConnections = 0
  /\ getMetrics.uniqueIPs = {IpLoopback}

\* C21: every origin address a connection has been seen from since start (a
\* key of connectionsByIP) is in the set of distinct addresses getMetrics()
\* reports.
C21_SeenAddressesReported ==
  \A ip \in DOMAIN connectionsByIP : ip \in getMetrics.uniqueIPs

\* The buffer flushBuffer() works on in the step that is being taken: the
\* buffer as it is when the debounce timer fires, the buffer with the arriving
\* fragment when addToBuffer forces the flush; no flush otherwise.
FlushedBuffer ==
  IF lastOp'.op = "flushTimer" THEN transcriptBuffer
  ELSE Append(transcriptBuffer, FragmentText(fragCount + 1))

FlushRuns ==
  \/ lastOp'.op = "flushTimer"
  \/ lastOp'.op = "addToBuffer" /\ lastOp'.forced

PendingFlushTimers == {t \in timers : t.kind = "flush"}

\* C25: a flush of a non-empty buffer hands exactly one transcript to the
\* handlers, its text the buffered fragments joined by single spaces, and
\* leaves the buffer empty and no debounce timer pending; a flush of an
\* empty buffer hands over nothing.
C25_FlushEmitsOnceAndClears ==
  [][ FlushRuns =>
        IF FlushedBuffer # <<>>
          THEN /\ Len(emitted') = 1
               /\ JoinedBySingleSpaces(emitted'[1].text, FlushedBuffer)
               /\ transcriptBuffer' = <<>>
               /\ bufferTimeout' = Null
               /\ PendingFlushTimers' = {}
          ELSE emitted' = <<>> /\ UNCHANGED transcriptBuffer ]_vars

\* C26: a new connection is sent one message, the state snapshot, and
\* nothing else.  Every chat, frame or transcript message a step sends is the
\* event that step fans out (the chat line that has just been counted, the
\* frame whose only pass this is, the transcript of the call) and goes to a
\* connection that is in the registry: an event fanned out earlier is never
\* sent again.
C26_SnapshotNoReplay ==
  [][ /\ lastOp'.op = "connection" =>
           /\ Len(out') = 1
           /\ out'[1].to = lastOp'.ws
           /\ out'[1].msg.type = "state"
      /\ \A k \in DOMAIN out' :
           LET m == out'[k].msg
           IN /\ m.type = "chat" =>
                   /\ lastOp'.op = "broadcastChatMessage"
                   /\ chatCount' = chatCount + 1
                   /\ m.payload.seq = chatCount'
              /\ m.type = "frame" =>
                   /\ lastOp'.op \in {"broadcastFrame", "frameSent"}
                   /\ m.payload.id = lastOp'.frame
                   /\ obs'.passes[m.payload.id] = 1
              /\ m.type = "transcript" => lastOp'.op = "broadcastTranscript"
              /\ m.type \in {"chat", "frame", "transcript"} =>
                   \E i \in DOMAIN connectedClaws : connectedClaws[i].ws = out'[k].to
    ]_vars

\* Claw "A" was registered on socket 1 and has gone; two chat lines and a
\* frame have been fanned out; socket 2 connects and is sent the snapshot
\* only, with both chat lines inside it.
C26_Witness ==
  /\ lastOp.op = "connection" /\ lastOp.ws = 2
  /\ readyState[1] = "CLOSED"
  /\ chatCount = 2 /\ Len(frames) >= 1
  /\ Len(out) = 1
  /\ out[1].msg.type = "state"
  /\ Len(out[1].msg.payload.recentChat) = 2
  /\ out[1].msg.payload.participants = << >>

\* The hub with the origin addresses left out: a participant without
\* ipAddress and isLocal, a message without them in its participant list.
BlindParticipant(p) ==
  [ id |-> p.id, name |-> p.name, sessionId |-> p.sessionId,
    joinedAt |-> p.joinedAt, lastSeen |-> p.lastSeen ]

BlindClaws(claws) ==
  [ i \in 1..Len(claws) |->
      [ id |-> claws[i].id, ws |-> claws[i].ws,
        participant |-> BlindParticipant(claws[i].participant) ] ]

BlindMessage(msg) ==
  IF msg.type = "state"
    THEN [ msg EXCEPT !.payload.participants =
             [i \in 1..Len(@) |-> BlindParticipant(@[i])] ]
    ELSE msg

BlindOut(sends) ==
  [k \in 1..Len(sends) |-> [to |-> sends[k].to, msg |-> BlindMessage(sends[k].msg)]]

Blind ==
  [ readyState |-> readyState,
    connectedClaws |-> BlindClaws(connectedClaws),
    pending |-> DOMAIN pendingConnections,
    streamStartedAt |-> streamStartedAt,
    totalConnectionsEver |-> totalConnectionsEver,
    out |-> BlindOut(out) ]

\* The step of the address-free hub: a function of the address-free state b
\* and of the operation with its address-free arguments (the socket, the
\* parsed message, the liveness flag).
BlindStep(b, op) ==
  CASE op.op = "connection" ->
         LET ws == b.totalConnectionsEver + 1
         IN [ b EXCEPT
                !.readyState[ws] = "OPEN",
                !.pending = @ \cup {ws},
                !.totalConnectionsEver = @ + 1,
                !.out = << [ to |-> ws,
                             msg |-> StateMessage(b.connectedClaws,
                                                  b.streamStartedAt) ] >> ]
    [] op.op = "message" /\ op.type = "register" ->
         LET m == op.message
             p == [ id |-> m.clawId, name |-> m.clawName,
                    sessionId |-> OrElse(m.sessionId, ""),
                    joinedAt |-> now, lastSeen |-> now ]
             set == MapSet(b.connectedClaws, m.clawId, op.ws, p)
         IN IF Falsy(m.clawId) \/ Falsy(m.clawName)
              THEN [b EXCEPT !.out = << >>]
              ELSE [ b EXCEPT
                       !.connectedClaws = BroadcastPrune(b.readyState, set),
                       !.pending = @ \ {op.ws},
                       !.out = BroadcastSends(b.readyState, set,
                                 StateMessage(set, b.streamStartedAt)) ]
    [] op.op = "closing" ->
         [b EXCEPT !.readyState[op.ws] = "CLOSING", !.out = << >>]
    [] op.op = "close" ->
         LET rs == [b.readyState EXCEPT ![op.ws] = "CLOSED"]
             i == FindByWs(b.connectedClaws, op.ws)
             deleted == IF i = 0 THEN b.connectedClaws
                        ELSE MapDelete(b.connectedClaws, b.connectedClaws[i].id)
         IN IF i = 0
              THEN [b EXCEPT !.readyState = rs, !.out = << >>]
              ELSE [ b EXCEPT
                       !.readyState = rs,
                       !.connectedClaws = BroadcastPrune(rs, deleted),
                       !.out = BroadcastSends(rs, deleted,
                                 StateMessage(deleted, b.streamStartedAt)) ]
    [] op.op = "setStreamLive" ->
         LET startedAt ==
               IF op.isLive /\ b.streamStartedAt = Null THEN now
               ELSE IF ~op.isLive /\ b.streamStartedAt # Null THEN Null
               ELSE b.streamStartedAt
         IN [ b EXCEPT
                !.streamStartedAt = startedAt,
                !.connectedClaws = BroadcastPrune(b.readyState, b.connectedClaws),
                !.out = BroadcastSends(b.readyState, b.connectedClaws,
                          StateMessage(b.connectedClaws, startedAt)) ]

\* C27: every step of the hub, seen without the address, locality and
\* metrics fields, is the step the address-free hub takes on the same
\* operation: the messages sent, their recipients and the registrations
\* accepted are a function of the address-free state and of the operation's
\* address-free arguments, so two runs that differ only in the origin
\* address of a connection agree on all of them.
C27_OriginHasNoEffect ==
  [][ Blind' = BlindStep(Blind, lastOp') ]_vars

\* A claw registers over a connection from a foreign address while a claw
\* from the loopback address is registered: both are sent the state.
C27_Witness ==
  /\ lastOp.op = "message" /\ lastOp.kind = "register" /\ lastOp.ws = 2
  /\ Len(connectedClaws) = 2
  /\ connectedClaws[1].participant.isLocal
  /\ connectedClaws[2].participant.ipAddress = IpForeign
  /\ ~connectedClaws[2].participant.isLocal
  /\ Len(out) = 2
  /\ readyState = [w \in Sockets |-> "OPEN"]

\* The processes of a capture class that have been spawned and have not
\* exited.
Alive(owner) == {p \in DOMAIN procs : p[1] = owner /\ ~procs[p].exited}

\* C29: when stop() of a capture class is called, every process of the class
\* that is still alive is in its set of active processes.
C29_StopFindsEveryLiveProcess ==
  [][ /\ lastOp'.op = "audioStop" => Alive("audio") \subseteq activeProcesses
      /\ lastOp'.op = "videoStop" => Alive("video") \subseteq videoProcesses
    ]_vars

\* C22: start() and stop() of a capture supervisor are idempotent.  start()
\* while the supervisor is running, and stop() while it is not running,
\* leave the supervisor as it was: the running flag, the capture loop and
\* its interval, the subprocesses and the set that tracks them, the timers,
\* the attempts and their files.
SupervisorState ==
  << isRunning, chunkIndex, frameIndex, captureInterval, procs,
     activeProcesses, videoProcesses, killWaiting, timers, attempts, files >>

C22_StartStopIdempotent ==
  [][ /\ lastOp'.op \in {"audioStart", "videoStart"} /\ lastOp'.already
           => UNCHANGED SupervisorState
      /\ lastOp'.op = "audioStop" /\ ~isRunning.audio
           => UNCHANGED SupervisorState
      /\ lastOp'.op = "videoStop" /\ ~isRunning.video
           => UNCHANGED SupervisorState
    ]_vars

AttemptAtRest(k) ==
  /\ \A p \in DOMAIN procs :
       p[1] = "video" /\ p[2] = k /\ p[3] # "probe" => procs[p].exited
  /\ \A t \in timers : t.kind = "acquireTimeout" => t.proc[2] # k

C24_NoArtifactsAfterAbandon ==
  \A k \in 1..frameIndex :
    attempts[<< "video", k >>].settled = "rejected" /\ AttemptAtRest(k)
      => Segment(k) \notin files /\ Image(k) \notin files

\* C30: isStreamLive() resolves exactly once: the promise is settled by one
\* call of resolve, at the latest when the 10 s timer has run; with true
\* only if the probe closed with code 0 and reported at least one stream;
\* with false on a non-zero exit, on output that does not parse or lists no
\* stream, on a spawn error and when the timeout came first; and once it has
\* resolved the probe is not in the active-process set.
ProbeTimerPending(n) ==
  \E t \in timers : t.kind = "probeTimeout" /\ t.proc[2] = n

C30_ProbeResolvesOnce ==
  \A n \in 1..Len(probes) :
    LET probe == probes[n]
    IN /\ probe.calls <= 1
       /\ probe.resolved <=> probe.calls = 1
       /\ ~ProbeTimerPending(n) => probe.resolved
       /\ probe.resolved =>
            /\ Proc("video", n, "probe") \notin videoProcesses
            /\ probe.by \in {"close", "timeout", "error"}
            /\ probe.result <=> probe.by = "close" /\ probe.close = "streams"

\* Two probes have resolved, one with true on its close and one with false
\* on its timeout, and the second close came after the timeout.
C30_Witness ==
  /\ Len(probes) = 2
  /\ \E n, m \in 1..2 :
       /\ probes[n].resolved /\ probes[n].result /\ ~ProbeTimerPending(n)
       /\ probes[m].resolved /\ probes[m].by = "timeout"
       /\ probes[m].close # "none"

\* C23: while the supervisor is running, an attempt that errors or times out
\* never stops the loop: every attempt that was started ends (a frame is
\* delivered, a chunk is recorded and handed on, or the attempt is
\* abandoned), and after an attempt has ended the loop starts the next one,
\* up to the attempts the model follows.  An attempt that was started stays
\* started and one that has ended stays ended, so this is to say that from
\* some point on every attempt that was started has ended and has its
\* successor.
AttemptKeys ==
  ({"audio"} \X (1..MaxChunks)) \cup ({"video"} \X (1..MaxAttempts))

Started(key) == key \in DOMAIN attempts

Ended(key) ==
  Started(key) /\ attempts[key].stage \in {"delivered", "recorded", "abandoned"}

HasSuccessor(key) ==
  key[2] < (IF key[1] = "audio" THEN MaxChunks ELSE MaxAttempts)

LoopCaughtUp ==
  \A key \in AttemptKeys :
    Started(key) =>
      /\ Ended(key)
      /\ HasSuccessor(key) => Started(<< key[1], key[2] + 1 >>)

C40_PendingOnlyOpenUnregistered ==
  \A ws \in DOMAIN pendingConnections :
    /\ readyState[ws] \in {"OPEN", "CLOSING"}
    /\ FindByWs(connectedClaws, ws) = 0

\* C38: a connection that has not registered is sent nothing but the
\* snapshot of its own connect and the pong that answers its own ping; every
\* frame, chat, transcript and state message of a fan-out pass goes to a
\* registered connection.
Unregistered(ws) == ws \in DOMAIN pendingConnections

C38_FanOutOnlyToRegistered ==
  \A i \in DOMAIN out :
    Unregistered(out[i].to) =>
      /\ lastOp.op \in {"connection", "message"}
      /\ lastOp.ws = out[i].to
      /\ Len(out) = 1
      /\ lastOp.op = "connection" => out[i].msg.type = "state"
      /\ lastOp.op = "message" =>
           /\ lastOp.kind = "ping"
           /\ out[i].msg.type = "pong"

\* A fan-out pass sends a frame, chat, transcript or state message while a
\* connection is open and has not registered.
C38_Witness ==
  /\ \E ws \in Sockets : Unregistered(ws) /\ readyState[ws] = "OPEN"
  /\ lastOp.op \in {"broadcastFrame", "broadcastChatMessage",
                    "broadcastTranscript", "setStreamLive"}
  /\ out # <<>>

\* C39: the in-flight flag of the summarizer is held exactly while a
\* describer request is outstanding: the completion of the request, by an
\* answer or by a failure, releases it, and the first summarizeFrame call
\* after a completion issues a new describer request.
C39_Completes == inflight' # inflight /\ inflight' \subseteq inflight
C39_Summarizes == enabled /\ Len(frames') = Len(frames) + 1

C39_FlagReleased ==
  [][ /\ enabled => (isSummarizing' <=> inflight' # {})
      /\ C39_Completes => ~isSummarizing' /\ inflight' = {}
      /\ C39_Summarizes /\ inflight = {} =>
           /\ inflight' = {Len(frames')}
           /\ ~lastOp'.guarded ]_vars

\* A second describer request is outstanding: the request of an earlier
\* frame has completed and a later call has passed the guard.
C39_Witness == enabled /\ \E f \in inflight : f >= 2

\* C31: frame messages are fanned out in the order of the broadcastFrame
\* calls: when the message of a frame is sent to a subscriber, the message of
\* every earlier frame has been fanned out before; and when no summary
\* attempt is pending, the frame message sent last is the current frame.
C31_FramesInCallOrder ==
  lastOp.op = "frameSent" =>
    /\ out # <<>> =>
         \A f \in 1..(lastOp.frame - 1) : obs.passes[f] > 0
    /\ inflight = {} /\ microtasks = <<>> => lastOp.frame = currentFrame

\* C37: a capture attempt of the video capture runs the extraction once at
\* most: no attempt has both the ffmpeg process started by the acquisition
\* timeout and the ffmpeg process started by the close of streamlink.
C37_OneExtractionPerAttempt ==
  \A k \in 1..MaxAttempts :
    ~ /\ Proc("video", k, "ffmpeg@timeout") \in DOMAIN procs
      /\ Proc("video", k, "ffmpeg") \in DOMAIN procs

\* C35: from the return of TwitchStreamCapture.stop() to the next start()
\* the set of active processes is empty, no interval timer of the capture
\* loop is scheduled, and no subprocess of the capture runs that stop() has
\* not signalled, which a process spawned after stop() would be.
VideoStopped == stopState.video = "returned" /\ ~isRunning.video

C35_StopStopsVideoCapture ==
  VideoStopped =>
    /\ videoProcesses = {}
    /\ \A t \in timers : t.kind # "interval"
    /\ \A p \in DOMAIN procs :
         p[1] = "video" => procs[p].exited \/ procs[p].killed

\* C36: while the video capture is running at most one capture loop is
\* active: the loops that await their first attempt and the interval timers
\* of the loops that have gone on to setInterval are one at most together.
LoopsAwaiting ==
  {key \in DOMAIN attempts :
     /\ key[1] = "video"
     /\ attempts[key].loop
     /\ attempts[key].settled = "pending"}
LoopIntervals == {t \in timers : t.kind = "interval"}

C36_OneCaptureLoop ==
  isRunning.video =>
    Cardinality(LoopsAwaiting) + Cardinality(LoopIntervals) <= 1

\* C32: a transcript is emitted only by the forced flush of a buffer that
\* has reached its maximal age, or when the debounce delay has passed since
\* the fragment buffered last; and one debounce timer is pending at most.
FlushTimers == {t \in timers : t.kind = "flush"}

C32_DebounceOrCeiling ==
  /\ Cardinality(FlushTimers) <= 1
  /\ emitted # <<>> =>
       \/ lastOp.op = "addToBuffer" /\ lastOp.forced
       \/ lastOp.op = "flushTimer" /\ clock - burst.last >= BUFFER_DELAY_MS

\* C33: every fragment accepted into the buffer goes into one transcript at
\* most, and the fragments appear in the transcripts in their order of
\* arrival: the buffer holds the fragments that arrived last, in order, and
\* a step either keeps what is held (with the fragment that arrives) or
\* hands all of it over in one transcript and empties the buffer.  While
\* stop() is never called every fragment accepted is emitted in the end.
C33_Held ==
  /\ Len(transcriptBuffer) <= fragCount
  /\ \A i \in DOMAIN transcriptBuffer :
       transcriptBuffer[i] =
         FragmentText(fragCount - Len(transcriptBuffer) + i)

C33_Step ==
  LET arrived == IF fragCount' = fragCount + 1
                   THEN << FragmentText(fragCount') >> ELSE << >>
      held == transcriptBuffer \o arrived
  IN \/ emitted' = << >> /\ transcriptBuffer' = held
     \/ /\ held # << >>
        /\ Len(emitted') = 1
        /\ JoinedBySingleSpaces(emitted'[1].text, held)
        /\ transcriptBuffer' = << >>

C33_EachFragmentEmittedOnce ==
  /\ []C33_Held
  /\ [][C33_Step]_vars
  /\ (transcriptBuffer # << >>) ~> (transcriptBuffer = << >>)

\* A debounce timer flushes a buffer of fragments after the third fragment
\* has arrived.
C33_Witness ==
  /\ lastOp.op = "flushTimer"
  /\ emitted # << >>
  /\ fragCount >= 3

\* C34: from the return of TwitchAudioCapture.stop() to the next start() no
\* transcript is handed to the handlers and no debounce timer is pending.
AudioStopped == stopState.audio = "returned" /\ ~isRunning.audio

C34_QuietAfterStop ==
  AudioStopped => emitted = << >> /\ FlushTimers = {}
====
